---------------------------- MODULE Spec2Model ----------------------------
(***************************************************************************)
(* State-machine model of the credential security subsystem of             *)
(* pass-guardians_back: the credential vault (credential/), and the        *)
(* sharing engine (sharing/).  One action per REST handler; the handlers   *)
(* that the code runs without a transaction are also given step by step    *)
(* for the interleaving specifications.                                    *)
(***************************************************************************)
EXTENDS Integers, Sequences, FiniteSets, TLC

VARIABLES
    now,            \* timezone.now(), in days
    cred,           \* table Credential: id -> row
    history,        \* table PasswordHistory: credential id -> rows, oldest first
    sharedCreds,    \* table SharedCredential: set of rows
    sharedFolders,  \* table SharedFolder: set of rows
    response,       \* the response of the last completed request
    req,            \* requests in flight (interleaving specifications only)
    pwLog,          \* history variable: the plaintexts that updates replaced, in order
    folders         \* table Folder: id -> row

vars == <<now, cred, history, sharedCreds, sharedFolders, response, req, pwLog, folders>>

-----------------------------------------------------------------------------
(* Bounds of the model *)

MaxTime == 2
MaxGrants == 2
MaxIV == 1
MaxChanges == 12
MaxRequests == 2

(* Program constants *)

HistoryLimit == 10
MinUpdateStrength == 30
MaxExtendDays == 365

-----------------------------------------------------------------------------
(* Users, resources and values *)

Users == {"u1", "u2", "u3"}
Staff == {"u1"}
CredIds == {"c1"}
Folders == {"f1", "f2"}

\* Folder.owner of the folders that the grants name
Folder_owner(f) == IF f = "f1" THEN "u1" ELSE "u2"

\* PermissionChoices
Levels == {"read", "write", "share", "admin"}

\* a nullable column / an optional request field: <<>> is None, <<v>> is v
Null == <<>>
Some(v) == <<v>>

-----------------------------------------------------------------------------
(* Responses *)

\* op names the handler; error is "" on success; body is what is disclosed
Resp(op, error, body) == [op |-> op, error |-> error, body |-> body]

NoResponse == Resp("none", "", <<>>)

-----------------------------------------------------------------------------
(* sharing/models.py *)

\* a variant of is_expired that never reports expiry
is_expired_never(g) ==
    FALSE

\* SharedCredential.is_expired, SharedFolder.is_expired
is_expired(g) ==
    IF g.expires_at # Null THEN now > g.expires_at[1] ELSE FALSE

\* a variant of the hierarchy with write and share exchanged
permissions_hierarchy_swapped(p) ==
    CASE p = "read" -> 0
      [] p = "write" -> 2
      [] p = "share" -> 1
      [] p = "admin" -> 3
      [] OTHER -> 0

\* permissions_hierarchy.get(p, 0)
permissions_hierarchy(p) ==
    CASE p = "read" -> 0
      [] p = "write" -> 1
      [] p = "share" -> 2
      [] p = "admin" -> 3
      [] OTHER -> 0

\* SharedCredential.has_permission, SharedFolder.has_permission
has_permission(g, permission) ==
    LET user_level == permissions_hierarchy(g.permission)
        required_level == permissions_hierarchy(permission)
    IN  user_level >= required_level /\ g.is_active /\ ~is_expired(g)

\* Meta.unique_together = [['credential', 'user']] / [['folder', 'user']]:
\* the INSERT of row g into table is refused by the store
UniqueViolation(table, g) ==
    \E h \in table : h.res = g.res /\ h.user = g.user

\* a row of SharedCredential / SharedFolder (shared_at is written once by
\* auto_now_add and read by no operation; it is left out)
Grant(res, user, permission, shared_by, expires_at, is_active) ==
    [res |-> res, user |-> user, permission |-> permission,
     shared_by |-> shared_by, expires_at |-> expires_at,
     is_active |-> is_active]

NGrants == Cardinality(sharedCreds) + Cardinality(sharedFolders)

-----------------------------------------------------------------------------
(* sharing/permissions.py *)

\* CanAccessSharedContent.has_object_permission for a Credential (table =
\* sharedCreds) or a Folder (table = sharedFolders); both reach their grants
\* through the related name shared_with
CanAccessSharedContent(table, owner, res, user, safe_method) ==
    IF owner = user THEN TRUE
    ELSE LET matches == {g \in table : g.res = res /\ g.user = user /\ g.is_active}
         IN  IF matches = {} THEN FALSE
             ELSE LET shared == CHOOSE g \in matches : TRUE
                  IN  IF ~is_expired(shared)
                      THEN IF safe_method THEN has_permission(shared, "read")
                           ELSE has_permission(shared, "write")
                      ELSE FALSE

\* CanManageSharing.has_object_permission
CanManageSharing(owner, user) == owner = user

-----------------------------------------------------------------------------
(* sharing/serializers.py *)

\* validate_user_email: the e-mail names an existing user
validate_user_email(email) ==
    IF email \in Users THEN "" ELSE "ValidationError"

\* SharedCredentialCreateSerializer.validate, for the credential of the URL
SharedCredentialCreate_validate(c, email) ==
    IF ~(c \in CredIds /\ cred[c].exists) THEN "ValidationError"
    ELSE IF cred[c].owner = email THEN "SelfShareNotAllowed"
    ELSE IF \E g \in sharedCreds : g.res = c /\ g.user = email
         THEN "DuplicateGrant"
    ELSE ""

\* SharedFolderCreateSerializer.validate, for the folder of the request BODY
SharedFolderCreate_validate(folder, email) ==
    IF Folder_owner(folder) = email THEN "SelfShareNotAllowed"
    ELSE IF \E g \in sharedFolders : g.res = folder /\ g.user = email
         THEN "DuplicateGrant"
    ELSE ""

\* Shared*CreateSerializer.create: the row that is inserted
\* ("if expires_in_days:" is false for an absent field and for 0)
SharedCreate_row(res, email, by, permission, expires_in_days, is_active) ==
    Grant(res, email, permission, by,
          IF expires_in_days # Null /\ expires_in_days[1] # 0
          THEN Some(now + expires_in_days[1]) ELSE Null,
          is_active)

\* Shared*UpdateSerializer.validate_expires_at
validate_expires_at(value) ==
    IF value # Null /\ value[1] <= now THEN "ValidationError" ELSE ""

-----------------------------------------------------------------------------
(* Passwords are sequences of one-character strings *)

LowerChars == {"a","b","c","d","e","f","g","h","i","j","k","l","m",
               "n","o","p","q","r","s","t","u","v","w","x","y","z"}
UpperChars == {"A","B","C","D","E","F","G","H","I","J","K","L","M",
               "N","O","P","Q","R","S","T","U","V","W","X","Y","Z"}
DigitChars == {"0","1","2","3","4","5","6","7","8","9"}
\* the class [!@#$%^&*(),.?":{}|<>] of the serializer
SymbolChars == {"!","@","#","$","%","^","&","*","(",")",",",".","?",
                "\"",":","{","}","|","<",">"}

\* re.search(class, password)
re_search(class, password) ==
    \E i \in 1..Len(password) : password[i] \in class

PwEmpty == <<>>
PwWeak == <<"a","b","c">>
PwA == <<"P","a","s","s","w","0","r","d">>
PwB == <<"P","a","s","s","w","0","r","d","!">>

\* pairwise distinct passwords that pass validate_password
FreshChars == <<"a","b","c","d","e","f","g","h","i","j","k","l","m","n","o","p">>
FreshPw(k) == Append(PwA, FreshChars[k])

-----------------------------------------------------------------------------
(* credential/models.py *)

\* BinaryField default b''; a Fernet token carries its random IV
EmptyBytes == [iv |-> 0, pt |-> <<>>]
IVs == 1..MaxIV
fernet_encrypt(plaintext, iv) == [iv |-> iv, pt |-> plaintext]
fernet_decrypt(token) == token.pt

\* Credential.encrypt_password
encrypt_password(row, password, iv) ==
    IF password # <<>>
    THEN [row EXCEPT !.password_encrypted = fernet_encrypt(password, iv)]
    ELSE row

\* Credential.decrypt_password
decrypt_password(row) ==
    IF row.password_encrypted # EmptyBytes
    THEN fernet_decrypt(row.password_encrypted)
    ELSE <<>>

\* Credential.encrypt_notes
encrypt_notes(row, notes, iv) ==
    IF notes # <<>>
    THEN [row EXCEPT !.notes_encrypted = fernet_encrypt(notes, iv)]
    ELSE row

\* Credential.decrypt_notes
decrypt_notes(row) ==
    IF row.notes_encrypted # EmptyBytes
    THEN fernet_decrypt(row.notes_encrypted)
    ELSE <<>>

\* a variant of update_last_used that also refreshes password_changed_at
update_last_used_and_changed(row) ==
    [row EXCEPT !.last_used_at = Some(now), !.password_changed_at = now]

\* Credential.update_last_used: save(update_fields=['last_used_at'])
update_last_used(row) == [row EXCEPT !.last_used_at = Some(now)]

\* no row with this id
NoCredential ==
    [exists |-> FALSE, owner |-> "-",
     password_encrypted |-> EmptyBytes, notes_encrypted |-> EmptyBytes,
     is_favorite |-> FALSE, is_shared |-> FALSE, last_used_at |-> Null,
     password_strength |-> 0, password_changed_at |-> 0]

\* Credential.objects.create(**validated_data): the model's defaults,
\* password_changed_at = auto_now_add
Credential_objects_create(owner, is_favorite, is_shared) ==
    [NoCredential EXCEPT !.exists = TRUE, !.owner = owner,
                         !.is_favorite = is_favorite, !.is_shared = is_shared,
                         !.password_changed_at = now]

-----------------------------------------------------------------------------
(* credential/serializers.py *)

\* CredentialDetailSerializer._calculate_password_strength
calculate_password_strength(password) ==
    IF password = <<>> THEN 0
    ELSE LET length == Len(password)
             s1 == IF length >= 8 THEN 25 ELSE 0
             s2 == IF length >= 12 THEN 10 ELSE 0
             s3 == IF length >= 16 THEN 15 ELSE 0
             s4 == IF re_search(LowerChars, password) THEN 10 ELSE 0
             s5 == IF re_search(UpperChars, password) THEN 10 ELSE 0
             s6 == IF re_search(DigitChars, password) THEN 10 ELSE 0
             s7 == IF re_search(SymbolChars, password) THEN 20 ELSE 0
             score == s1 + s2 + s3 + s4 + s5 + s6 + s7
         IN  IF score < 100 THEN score ELSE 100

\* CredentialDetailSerializer.validate_password
validate_password(value) ==
    IF value # <<>> /\ calculate_password_strength(value) < MinUpdateStrength
    THEN "ValidationError" ELSE ""

\* CredentialDetailSerializer.create (owner = request.user)
CredentialDetail_create(user, password, notes, is_favorite, is_shared, ivp, ivn) ==
    LET c0 == Credential_objects_create(user, is_favorite, is_shared)
        c1 == IF password # <<>>
              THEN [encrypt_password(c0, password, ivp) EXCEPT
                      !.password_strength = calculate_password_strength(password),
                      !.password_changed_at = now]
              ELSE c0
    IN  IF notes # <<>> THEN encrypt_notes(c1, notes, ivn) ELSE c1

\* CredentialDetailSerializer.update: the fields are optional (PATCH); the
\* result is the instance that instance.save() writes, every column of it
CredentialDetail_update(instance, password, notes, is_favorite, is_shared, ivp, ivn) ==
    LET i1 == [instance EXCEPT
                 !.is_favorite = IF is_favorite # Null THEN is_favorite[1] ELSE @,
                 !.is_shared = IF is_shared # Null THEN is_shared[1] ELSE @]
        i2 == IF password # Null /\ password[1] # decrypt_password(i1)
              THEN [encrypt_password(i1, password[1], ivp) EXCEPT
                      !.password_strength = calculate_password_strength(password[1]),
                      !.password_changed_at = now]
              ELSE i1
    IN  IF notes # Null THEN encrypt_notes(i2, notes[1], ivn) ELSE i2

-----------------------------------------------------------------------------
(* sharing/views.py: one action per handler *)

MaxExpiry == MaxTime + 1

\* ShareCredentialView: POST credentials/<c>/share/.  is_valid() runs the
\* field validators and validate(); perform_create() looks the credential up
\* among the requester's own and saves, which INSERTs the row.
ShareCredential_error(u, c, email, row) ==
    IF validate_user_email(email) # "" THEN validate_user_email(email)
    ELSE IF SharedCredentialCreate_validate(c, email) # ""
         THEN SharedCredentialCreate_validate(c, email)
    ELSE IF ~(cred[c].exists /\ cred[c].owner = u) THEN "NotFound"
    ELSE IF UniqueViolation(sharedCreds, row) THEN "IntegrityError"
    ELSE ""

ShareCredential(u, c, email, permission, days, active) ==
    LET row == SharedCreate_row(c, email, u, permission, days, active)
        err == ShareCredential_error(u, c, email, row)
    IN  /\ err = "" => NGrants < MaxGrants
        /\ sharedCreds' = IF err = "" THEN sharedCreds \cup {row} ELSE sharedCreds
        /\ response' = Resp("share_credential", err, <<>>)
        /\ UNCHANGED <<folders, now, cred, history, sharedFolders, req, pwLog>>

\* SharedCredentialViewSet.create: POST shared-credentials/.  The view has no
\* credential_id in its kwargs, so validate() finds no credential
ViewSetCreateCredentialShare(u, email) ==
    LET err == IF validate_user_email(email) # "" THEN validate_user_email(email)
               ELSE "ValidationError"
    IN  /\ response' = Resp("create_shared_credential", err, <<>>)
        /\ UNCHANGED <<folders, now, cred, history, sharedCreds, sharedFolders, req, pwLog>>

\* ShareFolderView: POST folders/<url_folder>/share/ with a body that names
\* a folder too.  validate() reads the folder of the body; perform_create()
\* saves with folder = the folder of the URL.
ShareFolder_error(u, url_folder, body_folder, email, row) ==
    IF validate_user_email(email) # "" THEN validate_user_email(email)
    ELSE IF SharedFolderCreate_validate(body_folder, email) # ""
         THEN SharedFolderCreate_validate(body_folder, email)
    ELSE IF Folder_owner(url_folder) # u THEN "NotFound"
    ELSE IF UniqueViolation(sharedFolders, row) THEN "IntegrityError"
    ELSE ""

ShareFolder(u, url_folder, body_folder, email, permission, days, active) ==
    LET row == SharedCreate_row(url_folder, email, u, permission, days, active)
        err == ShareFolder_error(u, url_folder, body_folder, email, row)
    IN  /\ err = "" => NGrants < MaxGrants
        /\ sharedFolders' = IF err = "" THEN sharedFolders \cup {row}
                            ELSE sharedFolders
        /\ response' = Resp("share_folder", err, <<>>)
        /\ UNCHANGED <<folders, now, cred, history, sharedCreds, req, pwLog>>

\* SharedFolderViewSet.create: POST shared-folders/, the folder is the one of
\* the body and the requester's ownership of it is not looked at
ViewSetCreateFolderShare(u, body_folder, email, permission, days, active) ==
    LET row == SharedCreate_row(body_folder, email, u, permission, days, active)
        err == IF validate_user_email(email) # "" THEN validate_user_email(email)
               ELSE IF SharedFolderCreate_validate(body_folder, email) # ""
                    THEN SharedFolderCreate_validate(body_folder, email)
               ELSE IF UniqueViolation(sharedFolders, row) THEN "IntegrityError"
               ELSE ""
    IN  /\ err = "" => NGrants < MaxGrants
        /\ sharedFolders' = IF err = "" THEN sharedFolders \cup {row}
                            ELSE sharedFolders
        /\ response' = Resp("create_shared_folder", err, <<>>)
        /\ UNCHANGED <<folders, now, cred, history, sharedCreds, req, pwLog>>

\* the owner of the resource of a grant
CredGrantOwner(g) == cred[g.res].owner
FolderGrantOwner(g) == Folder_owner(g.res)

\* a variant of the lookup that finds every grant for every requester
ViewSet_get_object_unscoped(owner, u) == ""

\* Shared*ViewSet.get_queryset + get_object: the grant is found only among
\* those whose resource the requester owns
ViewSet_get_object(owner, u) ==
    IF owner = u /\ CanManageSharing(owner, u) THEN "" ELSE "NotFound"

\* Shared*ViewSet.update / partial_update with Shared*UpdateSerializer:
\* each of permission, expires_at, is_active is optional
UpdatedGrant(g, permission, expires_at, is_active) ==
    [g EXCEPT !.permission = IF permission # Null THEN permission[1] ELSE @,
              !.expires_at = IF expires_at # Null THEN expires_at[1] ELSE @,
              !.is_active = IF is_active # Null THEN is_active[1] ELSE @]

UpdateShare_error(owner, u, expires_at) ==
    IF ViewSet_get_object(owner, u) # "" THEN ViewSet_get_object(owner, u)
    ELSE IF expires_at # Null THEN validate_expires_at(expires_at[1])
    ELSE ""

UpdateCredentialShare(u, g, permission, expires_at, is_active) ==
    LET err == UpdateShare_error(CredGrantOwner(g), u, expires_at)
    IN  /\ g \in sharedCreds
        /\ sharedCreds' = IF err = ""
              THEN (sharedCreds \ {g}) \cup {UpdatedGrant(g, permission, expires_at, is_active)}
              ELSE sharedCreds
        /\ response' = Resp("update_shared_credential", err, <<>>)
        /\ UNCHANGED <<folders, now, cred, history, sharedFolders, req, pwLog>>

UpdateFolderShare(u, g, permission, expires_at, is_active) ==
    LET err == UpdateShare_error(FolderGrantOwner(g), u, expires_at)
    IN  /\ g \in sharedFolders
        /\ sharedFolders' = IF err = ""
              THEN (sharedFolders \ {g}) \cup {UpdatedGrant(g, permission, expires_at, is_active)}
              ELSE sharedFolders
        /\ response' = Resp("update_shared_folder", err, <<>>)
        /\ UNCHANGED <<folders, now, cred, history, sharedCreds, req, pwLog>>

\* Shared*ViewSet.destroy
DestroyCredentialShare(u, g) ==
    LET err == ViewSet_get_object(CredGrantOwner(g), u)
    IN  /\ g \in sharedCreds
        /\ sharedCreds' = IF err = "" THEN sharedCreds \ {g} ELSE sharedCreds
        /\ response' = Resp("destroy_shared_credential", err, <<>>)
        /\ UNCHANGED <<folders, now, cred, history, sharedFolders, req, pwLog>>

DestroyFolderShare(u, g) ==
    LET err == ViewSet_get_object(FolderGrantOwner(g), u)
    IN  /\ g \in sharedFolders
        /\ sharedFolders' = IF err = "" THEN sharedFolders \ {g} ELSE sharedFolders
        /\ response' = Resp("destroy_shared_folder", err, <<>>)
        /\ UNCHANGED <<folders, now, cred, history, sharedCreds, req, pwLog>>

\* Shared*ViewSet.extend_expiration; days is Null when int(days) raises
extend_error(days) ==
    IF days = Null THEN "ValidationError"
    ELSE IF days[1] <= 0 \/ days[1] > MaxExtendDays THEN "ValidationError"
    ELSE ""

\* a variant of the extension that always counts from now
extended_from_now(g, days) ==
    [g EXCEPT !.expires_at = Some(now + days)]

extended(g, days) ==
    [g EXCEPT !.expires_at = IF g.expires_at # Null
                             THEN Some(g.expires_at[1] + days)
                             ELSE Some(now + days)]

ExtendCredentialShare(u, g, days) ==
    LET err == IF ViewSet_get_object(CredGrantOwner(g), u) # ""
               THEN ViewSet_get_object(CredGrantOwner(g), u)
               ELSE extend_error(days)
    IN  /\ g \in sharedCreds
        /\ err = "" => extended(g, days[1]).expires_at[1] <= MaxExpiry
        /\ sharedCreds' = IF err = ""
              THEN (sharedCreds \ {g}) \cup {extended(g, days[1])}
              ELSE sharedCreds
        /\ response' = Resp("extend_shared_credential", err, <<>>)
        /\ UNCHANGED <<folders, now, cred, history, sharedFolders, req, pwLog>>

ExtendFolderShare(u, g, days) ==
    LET err == IF ViewSet_get_object(FolderGrantOwner(g), u) # ""
               THEN ViewSet_get_object(FolderGrantOwner(g), u)
               ELSE extend_error(days)
    IN  /\ g \in sharedFolders
        /\ err = "" => extended(g, days[1]).expires_at[1] <= MaxExpiry
        /\ sharedFolders' = IF err = ""
              THEN (sharedFolders \ {g}) \cup {extended(g, days[1])}
              ELSE sharedFolders
        /\ response' = Resp("extend_shared_folder", err, <<>>)
        /\ UNCHANGED <<folders, now, cred, history, sharedCreds, req, pwLog>>

\* Shared*ViewSet.toggle_active
toggled(g) == [g EXCEPT !.is_active = ~g.is_active]

ToggleCredentialShare(u, g) ==
    LET err == ViewSet_get_object(CredGrantOwner(g), u)
    IN  /\ g \in sharedCreds
        /\ sharedCreds' = IF err = "" THEN (sharedCreds \ {g}) \cup {toggled(g)}
                          ELSE sharedCreds
        /\ response' = Resp("toggle_shared_credential", err, <<>>)
        /\ UNCHANGED <<folders, now, cred, history, sharedFolders, req, pwLog>>

ToggleFolderShare(u, g) ==
    LET err == ViewSet_get_object(FolderGrantOwner(g), u)
    IN  /\ g \in sharedFolders
        /\ sharedFolders' = IF err = "" THEN (sharedFolders \ {g}) \cup {toggled(g)}
                            ELSE sharedFolders
        /\ response' = Resp("toggle_shared_folder", err, <<>>)
        /\ UNCHANGED <<folders, now, cred, history, sharedCreds, req, pwLog>>

\* RevokeCredentialShareView / RevokeFolderShareView: get_object_or_404 on
\* (resource, user, resource owner = requester), then delete
revoked(table, owner, res, user, u) ==
    {g \in table : g.res = res /\ g.user = user /\ owner = u}

RevokeCredentialShare(u, c, user) ==
    LET found == revoked(sharedCreds, cred[c].owner, c, user, u)
    IN  /\ sharedCreds' = sharedCreds \ found
        /\ response' = Resp("revoke_credential",
                            IF found = {} THEN "NotFound" ELSE "", <<>>)
        /\ UNCHANGED <<folders, now, cred, history, sharedFolders, req, pwLog>>

RevokeFolderShare(u, f, user) ==
    LET found == revoked(sharedFolders, Folder_owner(f), f, user, u)
    IN  /\ sharedFolders' = sharedFolders \ found
        /\ response' = Resp("revoke_folder",
                            IF found = {} THEN "NotFound" ELSE "", <<>>)
        /\ UNCHANGED <<folders, now, cred, history, sharedCreds, req, pwLog>>

\* a variant of the sweep's filter that also takes the grants expiring now
swept_inclusive(table) ==
    {g \in table : g.expires_at # Null /\ g.expires_at[1] <= now /\ g.is_active}

\* CleanupExpiredSharesView.post: filter(expires_at__lt=now, is_active=True)
\* .update(is_active=False) on both tables
swept(table) ==
    {g \in table : g.expires_at # Null /\ g.expires_at[1] < now /\ g.is_active}

after_cleanup(table) ==
    (table \ swept(table)) \cup {[g EXCEPT !.is_active = FALSE] : g \in swept(table)}

CleanupExpired(u) ==
    IF u \in Staff
    THEN /\ sharedCreds' = after_cleanup(sharedCreds)
         /\ sharedFolders' = after_cleanup(sharedFolders)
         /\ response' = Resp("cleanup", "",
                             <<Cardinality(swept(sharedCreds)),
                               Cardinality(swept(sharedFolders))>>)
         /\ UNCHANGED <<folders, now, cred, history, req, pwLog>>
    ELSE /\ response' = Resp("cleanup", "PermissionDenied", <<>>)
         /\ UNCHANGED <<folders, now, cred, history, sharedCreds, sharedFolders, req, pwLog>>

\* a variant of the listing that also leaves out the grants expiring now
my_shared_until_now(table, u) ==
    {g \in table : g.user = u /\ g.is_active
                   /\ ~(g.expires_at # Null /\ g.expires_at[1] <= now)}

\* MySharedCredentialsListView / MySharedFoldersListView.get_queryset:
\* filter(user=request.user, is_active=True).exclude(expires_at__lt=now)
my_shared(table, u) ==
    {g \in table : g.user = u /\ g.is_active
                   /\ ~(g.expires_at # Null /\ g.expires_at[1] < now)}

\* GET my-shared-credentials/
MySharedCredentials(u) ==
    /\ response' = Resp("my_shared_credentials", "", <<my_shared(sharedCreds, u)>>)
    /\ UNCHANGED <<folders, now, cred, history, sharedCreds, sharedFolders, req, pwLog>>

\* GET my-shared-folders/
MySharedFolders(u) ==
    /\ response' = Resp("my_shared_folders", "", <<my_shared(sharedFolders, u)>>)
    /\ UNCHANGED <<folders, now, cred, history, sharedCreds, sharedFolders, req, pwLog>>

\* the clock advances
Tick ==
    /\ now < MaxTime
    /\ now' = now + 1
    /\ UNCHANGED <<folders, cred, history, sharedCreds, sharedFolders, response, req, pwLog>>

-----------------------------------------------------------------------------
(* credential/views.py: one action per handler of CredentialViewSet *)

\* hashlib.sha256(password.encode()).hexdigest(), free of collisions
sha256(password) == [sha256 |-> password]

\* a variant of _save_password_history that deletes the newest rows
save_password_history_keep_oldest(rows, old_password) ==
    IF old_password # <<>>
    THEN LET password_hash == sha256(old_password)
             inserted == IF \E i \in 1..Len(rows) : rows[i].password_hash = password_hash
                         THEN rows
                         ELSE Append(rows, [password_hash |-> password_hash])
         IN  IF Len(inserted) > HistoryLimit
             THEN SubSeq(inserted, 1, HistoryLimit)
             ELSE inserted
    ELSE rows

\* CredentialViewSet._save_password_history on the rows of one credential,
\* oldest first (created_at grows with every insert)
save_password_history(rows, old_password) ==
    IF old_password # <<>>
    THEN LET password_hash == sha256(old_password)
             inserted == IF \E i \in 1..Len(rows) : rows[i].password_hash = password_hash
                         THEN rows
                         ELSE Append(rows, [password_hash |-> password_hash])
         IN  IF Len(inserted) > HistoryLimit
             THEN SubSeq(inserted, Len(inserted) - HistoryLimit + 1, Len(inserted))
             ELSE inserted
    ELSE rows

\* CredentialViewSet.get_queryset + get_object: the requester's own
\* credentials and every credential whose is_shared is set
get_object(u, c) ==
    IF cred[c].exists /\ (cred[c].owner = u \/ cred[c].is_shared)
    THEN "" ELSE "NotFound"

\* the check that opens perform_update, mark_used and reveal_password
owner_or_shared(u, c) ==
    IF cred[c].owner # u /\ ~cred[c].is_shared THEN "PermissionDenied" ELSE ""

\* CredentialDetailSerializer.get_decrypted_password / get_decrypted_notes:
\* what a detail response shows to requester u
detail_data(row, u) ==
    IF u = row.owner \/ row.is_shared
    THEN <<Some(decrypt_password(row)), Some(decrypt_notes(row))>>
    ELSE <<Null, Null>>

\* CredentialViewSet.create with CredentialCreateSerializer: password is a
\* required, non-blank field; c is the fresh id of the new row
CreateCredential(u, c, password, notes, is_favorite, is_shared, ivp, ivn) ==
    LET err == IF password = <<>> THEN "ValidationError" ELSE ""
    IN  /\ ~cred[c].exists
        /\ cred' = IF err = ""
                   THEN [cred EXCEPT ![c] = CredentialDetail_create(
                            u, password, notes, is_favorite, is_shared, ivp, ivn)]
                   ELSE cred
        /\ response' = Resp("create", err, <<>>)
        /\ UNCHANGED <<folders, now, history, sharedCreds, sharedFolders, req, pwLog>>

\* CredentialViewSet.update / partial_update: get_object, is_valid,
\* perform_update (the check, old_password, serializer.save(), the history)
UpdateCredential_error(u, c, password) ==
    IF get_object(u, c) # "" THEN get_object(u, c)
    ELSE IF password # Null /\ validate_password(password[1]) # ""
         THEN validate_password(password[1])
    ELSE owner_or_shared(u, c)

CredentialViewSet_update(u, c, password, notes, is_favorite, is_shared, ivp, ivn) ==
    LET err == UpdateCredential_error(u, c, password)
        old_password == decrypt_password(cred[c])
        credential == CredentialDetail_update(cred[c], password, notes,
                                              is_favorite, is_shared, ivp, ivn)
    IN  /\ cred' = IF err = "" THEN [cred EXCEPT ![c] = credential] ELSE cred
        /\ history' = IF /\ err = "" /\ password # Null
                         /\ password[1] # <<>> /\ password[1] # old_password
                      THEN [history EXCEPT ![c] = save_password_history(@, old_password)]
                      ELSE history
        /\ response' = Resp("update", err,
                            IF err = "" THEN detail_data(credential, u) ELSE <<>>)

UpdateCredential(u, c, password, notes, is_favorite, is_shared, ivp, ivn) ==
    /\ CredentialViewSet_update(u, c, password, notes, is_favorite, is_shared, ivp, ivn)
    /\ UNCHANGED <<folders, now, sharedCreds, sharedFolders, req, pwLog>>

\* the fields a credential body may set: Meta.fields of the create and the
\* detail serializer without the read-only ones; 'owner' is not declared
CredentialWritableFields ==
    {"name", "username", "url", "password", "notes", "category", "folder",
     "is_favorite", "is_shared"}

\* a variant of the validation that lets a body's owner through
validated_owner_kept(body_owner) == body_owner

\* run_validation: a key of the body that is not a declared field never
\* reaches validated_data; body_owner is the optional 'owner' key
validated_owner(body_owner) ==
    IF "owner" \in CredentialWritableFields THEN body_owner ELSE Null

\* CredentialDetailSerializer.create: validated_data['owner'] = request.user
create_owner(owner, user) == user

\* CredentialDetailSerializer.update: setattr(instance, attr, value) for
\* the validated keys, here 'owner'
setattr_owner(instance, owner) ==
    IF owner # Null THEN [instance EXCEPT !.owner = owner[1]] ELSE instance

\* CredentialViewSet.create with a body that may carry an 'owner' key
CreateCredentialBody(u, c, body_owner, password, is_shared, iv) ==
    CreateCredential(create_owner(validated_owner(body_owner), u), c,
                     password, <<>>, FALSE, is_shared, iv, iv)

\* CredentialViewSet.update / partial_update with a body that may carry an
\* 'owner' key
UpdateCredentialBody(u, c, body_owner, password, is_shared, iv) ==
    LET err == UpdateCredential_error(u, c, password)
        old_password == decrypt_password(cred[c])
        credential == CredentialDetail_update(
                          setattr_owner(cred[c], validated_owner(body_owner)),
                          password, Null, Null, is_shared, iv, iv)
    IN  /\ cred' = IF err = "" THEN [cred EXCEPT ![c] = credential] ELSE cred
        /\ history' = IF /\ err = "" /\ password # Null
                         /\ password[1] # <<>> /\ password[1] # old_password
                      THEN [history EXCEPT ![c] = save_password_history(@, old_password)]
                      ELSE history
        /\ response' = Resp("update", err,
                            IF err = "" THEN detail_data(credential, u) ELSE <<>>)
        /\ UNCHANGED <<folders, now, sharedCreds, sharedFolders, req, pwLog>>

\* a variant of destroy that lets every user who can see the credential
\* delete it
DestroyCredential_by_anyone(u, c) ==
    LET err == get_object(u, c)
    IN  /\ cred' = IF err = "" THEN [cred EXCEPT ![c] = NoCredential] ELSE cred
        /\ history' = IF err = "" THEN [history EXCEPT ![c] = <<>>] ELSE history
        /\ sharedCreds' = IF err = "" THEN {g \in sharedCreds : g.res # c}
                          ELSE sharedCreds
        /\ response' = Resp("destroy", err, <<>>)
        /\ UNCHANGED <<folders, now, sharedFolders, req, pwLog>>

\* CredentialViewSet.destroy: the owner alone; the rows of PasswordHistory
\* and SharedCredential go with the credential (on_delete=CASCADE)
DestroyCredential(u, c) ==
    LET err == IF get_object(u, c) # "" THEN get_object(u, c)
               ELSE IF cred[c].owner # u THEN "PermissionDenied" ELSE ""
    IN  /\ cred' = IF err = "" THEN [cred EXCEPT ![c] = NoCredential] ELSE cred
        /\ history' = IF err = "" THEN [history EXCEPT ![c] = <<>>] ELSE history
        /\ sharedCreds' = IF err = "" THEN {g \in sharedCreds : g.res # c}
                          ELSE sharedCreds
        /\ response' = Resp("destroy", err, <<>>)
        /\ UNCHANGED <<folders, now, sharedFolders, req, pwLog>>

\* CredentialViewSet.mark_used
MarkUsed(u, c) ==
    LET err == IF get_object(u, c) # "" THEN get_object(u, c)
               ELSE owner_or_shared(u, c)
    IN  /\ cred' = IF err = "" THEN [cred EXCEPT ![c] = update_last_used(@)] ELSE cred
        /\ response' = Resp("mark_used", err, <<>>)
        /\ UNCHANGED <<folders, now, history, sharedCreds, sharedFolders, req, pwLog>>

\* CredentialViewSet.toggle_favorite: save(update_fields=['is_favorite'])
ToggleFavorite(u, c) ==
    LET err == IF get_object(u, c) # "" THEN get_object(u, c)
               ELSE IF cred[c].owner # u THEN "PermissionDenied" ELSE ""
        credential == [cred[c] EXCEPT !.is_favorite = ~@]
    IN  /\ cred' = IF err = "" THEN [cred EXCEPT ![c] = credential] ELSE cred
        /\ response' = Resp("toggle_favorite", err,
                            IF err = "" THEN detail_data(credential, u) ELSE <<>>)
        /\ UNCHANGED <<folders, now, history, sharedCreds, sharedFolders, req, pwLog>>

\* CredentialViewSet.retrieve: get_object, then CredentialDetailSerializer
RetrieveCredential(u, c) ==
    LET err == get_object(u, c)
    IN  /\ response' = Resp("retrieve", err,
                            IF err = "" THEN detail_data(cred[c], u) ELSE <<>>)
        /\ UNCHANGED <<folders, now, cred, history, sharedCreds, sharedFolders, req, pwLog>>

\* CredentialViewSet.reveal_password: 404 when no password decrypts
RevealPassword_error(u, c) ==
    IF get_object(u, c) # "" THEN get_object(u, c)
    ELSE IF owner_or_shared(u, c) # "" THEN owner_or_shared(u, c)
    ELSE IF decrypt_password(cred[c]) = <<>> THEN "NotFound"
    ELSE ""

RevealPassword(u, c) ==
    LET err == RevealPassword_error(u, c)
    IN  /\ response' = Resp("reveal_password", err,
                            IF err = "" THEN <<decrypt_password(cred[c])>> ELSE <<>>)
        /\ UNCHANGED <<folders, now, cred, history, sharedCreds, sharedFolders, req, pwLog>>

-----------------------------------------------------------------------------
(* CredentialViewSet._analyze_password_strength (the second definition of   *)
(* the class body, which replaces the first) and its helpers                *)

\* the printable ASCII characters in code order, from chr(32); "grave"
\* stands for the grave accent
Ascii == <<" ", "!", "\"", "#", "$", "%", "&", "'", "(", ")", "*", "+",
           ",", "-", ".", "/", "0", "1", "2", "3", "4", "5", "6", "7", "8",
           "9", ":", ";", "<", "=", ">", "?", "@", "A", "B", "C", "D", "E",
           "F", "G", "H", "I", "J", "K", "L", "M", "N", "O", "P", "Q", "R",
           "S", "T", "U", "V", "W", "X", "Y", "Z", "[", "\\", "]", "^",
           "_", "grave", "a", "b", "c", "d", "e", "f", "g", "h", "i", "j", "k",
           "l", "m", "n", "o", "p", "q", "r", "s", "t", "u", "v", "w", "x",
           "y", "z", "{", "|", "}", "~">>

\* ord(ch)
ord(ch) == 31 + (CHOOSE i \in 1..Len(Ascii) : Ascii[i] = ch)

\* str.lower()
lower(password) ==
    [i \in 1..Len(password) |->
        IF password[i] \in UpperChars THEN Ascii[ord(password[i]) + 32 - 31]
        ELSE password[i]]

\* word in password
contains(password, word) ==
    \E i \in 1..(Len(password) - Len(word) + 1) :
        SubSeq(password, i, i + Len(word) - 1) = word

\* pattern[::-1]
reversed(s) == [i \in 1..Len(s) |-> s[Len(s) + 1 - i]]

\* round(1000000 * math.log2(k)) for k = 1..256
Log2Micro == <<0, 1000000, 1584963, 2000000, 2321928, 2584963, 2807355,
               3000000, 3169925, 3321928, 3459432, 3584963, 3700440,
               3807355, 3906891, 4000000, 4087463, 4169925, 4247928,
               4321928, 4392317, 4459432, 4523562, 4584963, 4643856,
               4700440, 4754888, 4807355, 4857981, 4906891, 4954196,
               5000000, 5044394, 5087463, 5129283, 5169925, 5209453,
               5247928, 5285402, 5321928, 5357552, 5392317, 5426265,
               5459432, 5491853, 5523562, 5554589, 5584963, 5614710,
               5643856, 5672425, 5700440, 5727920, 5754888, 5781360,
               5807355, 5832890, 5857981, 5882643, 5906891, 5930737,
               5954196, 5977280, 6000000, 6022368, 6044394, 6066089,
               6087463, 6108524, 6129283, 6149747, 6169925, 6189825,
               6209453, 6228819, 6247928, 6266787, 6285402, 6303781,
               6321928, 6339850, 6357552, 6375039, 6392317, 6409391,
               6426265, 6442943, 6459432, 6475733, 6491853, 6507795,
               6523562, 6539159, 6554589, 6569856, 6584963, 6599913,
               6614710, 6629357, 6643856, 6658211, 6672425, 6686501,
               6700440, 6714246, 6727920, 6741467, 6754888, 6768184,
               6781360, 6794416, 6807355, 6820179, 6832890, 6845490,
               6857981, 6870365, 6882643, 6894818, 6906891, 6918863,
               6930737, 6942515, 6954196, 6965784, 6977280, 6988685,
               7000000, 7011227, 7022368, 7033423, 7044394, 7055282,
               7066089, 7076816, 7087463, 7098032, 7108524, 7118941,
               7129283, 7139551, 7149747, 7159871, 7169925, 7179909,
               7189825, 7199672, 7209453, 7219169, 7228819, 7238405,
               7247928, 7257388, 7266787, 7276124, 7285402, 7294621,
               7303781, 7312883, 7321928, 7330917, 7339850, 7348728,
               7357552, 7366322, 7375039, 7383704, 7392317, 7400879,
               7409391, 7417853, 7426265, 7434628, 7442943, 7451211,
               7459432, 7467606, 7475733, 7483816, 7491853, 7499846,
               7507795, 7515700, 7523562, 7531381, 7539159, 7546894,
               7554589, 7562242, 7569856, 7577429, 7584963, 7592457,
               7599913, 7607330, 7614710, 7622052, 7629357, 7636625,
               7643856, 7651052, 7658211, 7665336, 7672425, 7679480,
               7686501, 7693487, 7700440, 7707359, 7714246, 7721099,
               7727920, 7734710, 7741467, 7748193, 7754888, 7761551,
               7768184, 7774787, 7781360, 7787903, 7794416, 7800900,
               7807355, 7813781, 7820179, 7826548, 7832890, 7839204,
               7845490, 7851749, 7857981, 7864186, 7870365, 7876517,
               7882643, 7888743, 7894818, 7900867, 7906891, 7912889,
               7918863, 7924813, 7930737, 7936638, 7942515, 7948367,
               7954196, 7960002, 7965784, 7971544, 7977280, 7982994,
               7988685, 7994353, 8000000>>

\* the symbol class of the analyzer's has_symbols search, without its
\* non-ASCII member; "grave" stands for the grave accent, chr(96)
AnalyzerSymbolChars == {"!", "@", "#", "$", "%", "^", "&", "*", "(", ")",
                        ",", ".", "?", "\"", ":", "{", "}", "|", "<", ">",
                        "[", "]", "\\", "/", "_", "+", "=", "~", "grave", "-",
                        ";", "'"}

\* the patterns "xyz+" of common_patterns: each matches where its literal occurs
common_literals == {<<"1","2","3">>, <<"2","3","4">>, <<"3","4","5">>,
    <<"4","5","6">>, <<"5","6","7">>, <<"6","7","8">>, <<"7","8","9">>,
    <<"9","8","7">>, <<"8","7","6">>, <<"7","6","5">>, <<"6","5","4">>,
    <<"5","4","3">>, <<"4","3","2">>, <<"3","2","1">>, <<"a","b","c">>,
    <<"b","c","d">>, <<"c","d","e">>, <<"d","e","f">>, <<"e","f","g">>,
    <<"f","g","h">>, <<"z","y","x">>, <<"y","x","w">>, <<"x","w","v">>,
    <<"w","v","u">>, <<"v","u","t">>, <<"u","t","s">>, <<"q","w","e","r">>,
    <<"a","s","d","f">>, <<"z","x","c","v">>, <<"q","w","e","r","t","y">>,
    <<"a","z","e","r","t","y">>, <<"u","i","o","p">>, <<"h","j","k","l">>,
    <<"n","m",",">>, <<"p","a","s","s","w","o","r","d">>,
    <<"m","o","t","d","e","p","a","s","s","e">>, <<"a","d","m","i","n">>,
    <<"u","s","e","r">>, <<"l","o","g","i","n">>,
    <<"w","e","l","c","o","m","e">>, <<"b","o","n","j","o","u","r">>,
    <<"s","a","l","u","t">>, <<"t","e","s","t">>, <<"d","e","m","o">>}

\* the prefixes of the patterns 202[0-9], 199[0-9], 198[0-9]
common_dates == {<<"2","0","2">>, <<"1","9","9">>, <<"1","9","8">>}

\* _check_common_patterns: re.search of every pattern in password.lower()
check_common_patterns(password) ==
    LET password_lower == lower(password)
        n == Len(password_lower)
    IN  \/ \E w \in common_literals : contains(password_lower, w)
        \* ./;+  : any character, then "/;"
        \/ \E i \in 1..(n - 2) : password_lower[i + 1] = "/" /\ password_lower[i + 2] = ";"
        \/ \E i \in 1..(n - 3) :
              /\ SubSeq(password_lower, i, i + 2) \in common_dates
              /\ password_lower[i + 3] \in DigitChars
        \* (.)\1{2,}
        \/ \E i \in 1..(n - 2) :
              password_lower[i] = password_lower[i + 1] /\ password_lower[i] = password_lower[i + 2]

\* Counter(password)[ch]
char_count(password, ch) == Cardinality({i \in 1..Len(password) : password[i] = ch})

RECURSIVE SumCountLog(_, _)
SumCountLog(password, chars) ==
    IF chars = {} THEN 0
    ELSE LET ch == CHOOSE x \in chars : TRUE
             k == char_count(password, ch)
         IN  k * Log2Micro[k] + SumCountLog(password, chars \ {ch})

\* _calculate_entropy(password) >= tenths / 10: with n the length and k the
\* counts, the Shannon entropy is log2(n) - sum(k * log2(k)) / n
entropy_at_least(password, tenths) ==
    LET n == Len(password)
        chars == {password[i] : i \in 1..n}
    IN  n * Log2Micro[n] - SumCountLog(password, chars) >= tenths * n * 100000

\* _calculate_uniqueness(password) >= tenths / 10
uniqueness_at_least(password, tenths) ==
    10 * Cardinality({password[i] : i \in 1..Len(password)}) >= tenths * Len(password)

common_words == {<<"p","a","s","s","w","o","r","d">>,
    <<"m","o","t","d","e","p","a","s","s","e">>, <<"a","d","m","i","n">>,
    <<"u","s","e","r">>, <<"l","o","g","i","n">>,
    <<"w","e","l","c","o","m","e">>, <<"b","o","n","j","o","u","r">>,
    <<"s","a","l","u","t">>, <<"h","e","l","l","o">>,
    <<"w","o","r","l","d">>, <<"t","e","s","t">>, <<"d","e","m","o">>,
    <<"a","z","e","r","t","y">>, <<"q","w","e","r","t","y">>,
    <<"s","e","c","r","e","t">>, <<"p","a","s","s","e">>,
    <<"c","o","d","e">>, <<"c","l","e","f">>, <<"k","e","y">>,
    <<"o","p","e","n">>, <<"o","u","v","r","i","r">>,
    <<"f","e","r","m","e","r">>, <<"c","l","o","s","e">>,
    <<"s","t","a","r","t">>, <<"s","t","o","p">>, <<"b","e","g","i","n">>,
    <<"e","n","d">>, <<"p","r","e","m","i","e","r">>,
    <<"d","e","r","n","i","e","r">>, <<"f","i","r","s","t">>,
    <<"l","a","s","t">>, <<"n","o","u","v","e","a","u">>, <<"n","e","w">>,
    <<"o","l","d">>, <<"a","n","c","i","e","n">>,
    <<"f","a","c","i","l","e">>, <<"e","a","s","y">>,
    <<"s","i","m","p","l","e">>, <<"b","a","s","i","c">>,
    <<"m","a","s","t","e","r">>, <<"m","a","i","t","r","e">>}

\* _check_dictionary_words: the words of four characters or more found
check_dictionary_words(password) ==
    {word \in common_words : Len(word) >= 4 /\ contains(lower(password), word)}

\* _check_repeated_chars: the longest run of one character
check_repeated_chars(password) ==
    LET n == Len(password)
        run(i) == CHOOSE k \in 1..i :
                     /\ \A j \in (i - k + 1)..i : password[j] = password[i]
                     /\ (k = i \/ password[i - k] # password[i])
        runs == {run(i) : i \in 1..n}
    IN  IF n = 0 THEN 0 ELSE CHOOSE m \in runs : \A k \in runs : k <= m

\* _check_sequential_chars
check_sequential_chars(password) ==
    \E i \in 1..(Len(password) - 2) :
        \/ /\ ord(password[i + 1]) = ord(password[i]) + 1
           /\ ord(password[i + 2]) = ord(password[i]) + 2
        \/ /\ ord(password[i + 1]) = ord(password[i]) - 1
           /\ ord(password[i + 2]) = ord(password[i]) - 2

keyboard_rows == {<<"q","w","e","r","t","y","u","i","o","p">>,
    <<"a","s","d","f","g","h","j","k","l">>, <<"z","x","c","v","b","n","m">>,
    <<"a","z","e","r","t","y","u","i","o","p">>,
    <<"q","s","d","f","g","h","j","k","l","m">>, <<"w","x","c","v","b","n">>}

\* _check_keyboard_patterns
check_keyboard_patterns(password) ==
    \E row \in keyboard_rows : \E i \in 1..(Len(row) - 2) :
        LET pattern == SubSeq(row, i, i + 2)
        IN  \/ contains(lower(password), pattern)
            \/ contains(lower(password), reversed(pattern))

\* charset_size of _estimate_crack_time
charset_size(password) ==
    (IF re_search(LowerChars, password) THEN 26 ELSE 0)
    + (IF re_search(UpperChars, password) THEN 26 ELSE 0)
    + (IF re_search(DigitChars, password) THEN 10 ELSE 0)
    + (IF re_search(AnalyzerSymbolChars, password) THEN 32 ELSE 0)

\* the exponent from which an int no longer converts to a float
FloatMaxExp == 1024

\* _estimate_crack_time: combinations = charset_size ** len(password) is an
\* int of any size; combinations / 2 and the format of combinations
\* convert it to a float and raise OverflowError from 2 ** 1024 on
estimate_crack_time_error(password) ==
    IF password # <<>> /\ charset_size(password) > 0
       /\ Len(password) * Log2Micro[charset_size(password)] >= FloatMaxExp * 1000000
    THEN "OverflowError" ELSE ""

\* the report of _analyze_password_strength
Report(error, score, level, recommendations, base_score, penalties) ==
    [error |-> error, score |-> score, level |-> level,
     recommendations |-> recommendations, base_score |-> base_score,
     penalties |-> penalties]

\* the level of a final score
strength_level(final_score) ==
    IF final_score >= 90 THEN "Excellent"
    ELSE IF final_score >= 80 THEN "Tres fort"
    ELSE IF final_score >= 70 THEN "Fort"
    ELSE IF final_score >= 60 THEN "Moyen"
    ELSE IF final_score >= 40 THEN "Faible"
    ELSE IF final_score >= 20 THEN "Tres faible"
    ELSE "Critique"

\* list[:n]
prefix(list, n) == SubSeq(list, 1, IF Len(list) < n THEN Len(list) ELSE n)

\* a list with one recommendation when the criterion fails
rec(failed, text) == IF failed THEN <<text>> ELSE <<>>

\* _analyze_password_strength: the report, or the exception it raises
analyze_password_strength(password) ==
    IF password = <<>>
    THEN Report("", 0, "Aucun", <<"set_password">>, 0, 0)
    ELSE LET length == Len(password)
             has_lowercase == re_search(LowerChars, password)
             has_uppercase == re_search(UpperChars, password)
             has_digits == re_search(DigitChars, password)
             has_symbols == re_search(AnalyzerSymbolChars, password)
             character_types == (IF has_lowercase THEN 1 ELSE 0) + (IF has_uppercase THEN 1 ELSE 0)
                                + (IF has_digits THEN 1 ELSE 0) + (IF has_symbols THEN 1 ELSE 0)
             has_common_patterns == check_common_patterns(password)
             dictionary_words == check_dictionary_words(password)
             repeated == check_repeated_chars(password) > 2
             sequential == check_sequential_chars(password)
             keyboard == check_keyboard_patterns(password)
             score == (IF length >= 8 THEN 15 ELSE 0) + (IF length >= 12 THEN 10 ELSE 0)
                      + (IF length >= 16 THEN 10 ELSE 0)
                      + (IF has_lowercase THEN 5 ELSE 0) + (IF has_uppercase THEN 5 ELSE 0)
                      + (IF has_digits THEN 10 ELSE 0) + (IF has_symbols THEN 15 ELSE 0)
                      + (IF character_types >= 3 THEN 10 ELSE 0)
                      + (IF character_types = 4 THEN 5 ELSE 0)
                      + (IF entropy_at_least(password, 40) THEN 15
                         ELSE IF entropy_at_least(password, 35) THEN 10
                         ELSE IF entropy_at_least(password, 30) THEN 5 ELSE 0)
                      + (IF uniqueness_at_least(password, 8) THEN 10
                         ELSE IF uniqueness_at_least(password, 6) THEN 5 ELSE 0)
             penalties == (IF has_common_patterns THEN 25 ELSE 0)
                          + (IF dictionary_words # {} THEN 15 ELSE 0)
                          + (IF repeated THEN 10 ELSE 0)
                          + (IF sequential THEN 15 ELSE 0)
                          + (IF keyboard THEN 20 ELSE 0)
             recommendations ==
                 rec(length < 8, "length_8")
                 \o rec(length >= 8 /\ length < 12, "length_12")
                 \o rec(length >= 12 /\ length < 16, "length_16")
                 \o rec(~has_lowercase, "lowercase") \o rec(~has_uppercase, "uppercase")
                 \o rec(~has_digits, "digits") \o rec(~has_symbols, "symbols")
                 \o rec(~entropy_at_least(password, 30), "entropy")
                 \o rec(~uniqueness_at_least(password, 6), "uniqueness")
                 \o rec(has_common_patterns, "common_patterns")
                 \o rec(dictionary_words # {}, "dictionary")
                 \o rec(repeated, "repeated") \o rec(sequential, "sequential")
                 \o rec(keyboard, "keyboard")
             clamped == IF score - penalties > 100 THEN 100 ELSE score - penalties
             final_score == IF clamped < 0 THEN 0 ELSE clamped
         IN  IF estimate_crack_time_error(password) # ""
             THEN Report(estimate_crack_time_error(password), 0, "", <<>>, 0, 0)
             ELSE Report("", final_score, strength_level(final_score),
                         prefix(recommendations, 5), score, penalties)

\* a caller (password_strength, analyze_password, generate_password)
\* evaluates self._analyze_password_strength(password)
AnalyzePasswordStrength(r) ==
    /\ req[r].pc = "start"
    /\ LET report == analyze_password_strength(req[r].data)
       IN  /\ req' = [req EXCEPT ![r].pc = "done"]
           /\ response' = Resp("analyze_password_strength", report.error,
                               IF report.error = "" THEN <<report>> ELSE <<>>)
    /\ UNCHANGED <<folders, now, cred, history, sharedCreds, sharedFolders, pwLog>>

-----------------------------------------------------------------------------
(* CredentialViewSet.generate_password *)

MinLength == 4
MaxLength == 128

\* the symbols string of _generate_secure_password
GenSymbolChars == {"!","@","#","$","%","^","&","*","(",")","_","+","-","=",
                   "[","]","{","}","|",";",":",",",".","<",">","?"}

\* the characters the model lets the random source return: every character
\* that exclude_ambiguous removes, and one other character of each class
DrawnChars == {"a","l","o","A","I","O","2","0","1","!"}

\* secrets.choice(chars): any character of chars
secrets_choice(chars) == chars \cap DrawnChars

\* chars of one class: string.X, with .replace(.., '') when exclude_ambiguous
class_chars(include, chars, ambiguous, exclude_ambiguous) ==
    IF ~include THEN {}
    ELSE IF exclude_ambiguous THEN chars \ ambiguous ELSE chars

\* secrets.SystemRandom().shuffle(all_chars): every order of the list
RECURSIVE shuffle(_)
shuffle(all_chars) ==
    IF all_chars = <<>> THEN {<<>>}
    ELSE LET n == Len(all_chars)
             firsts == {i \in 1..n : \A j \in 1..(i - 1) : all_chars[j] # all_chars[i]}
             without(i) == SubSeq(all_chars, 1, i - 1) \o SubSeq(all_chars, i + 1, n)
         IN  UNION {{<<all_chars[i]>> \o t : t \in shuffle(without(i))} : i \in firsts}

GenOutcome(error, password) == [error |-> error, password |-> password]

\* the classes of the request, in the order the code visits them
gen_classes(include_symbols, include_numbers, include_uppercase, include_lowercase, exclude_ambiguous) ==
    SelectSeq(<<class_chars(include_lowercase, LowerChars, {"l","o"}, exclude_ambiguous),
                class_chars(include_uppercase, UpperChars, {"I","O"}, exclude_ambiguous),
                class_chars(include_numbers, DigitChars, {"0","1"}, exclude_ambiguous),
                class_chars(include_symbols, GenSymbolChars, {}, FALSE)>>,
              LAMBDA chars : chars # {})

\* _generate_secure_password with exclude_ambiguous ignored
generate_secure_password_keep_ambiguous(length, include_symbols, include_numbers, include_uppercase, include_lowercase, exclude_ambiguous) ==
    LET classes == gen_classes(include_symbols, include_numbers, include_uppercase,
                               include_lowercase, FALSE)
        characters == UNION {classes[i] : i \in 1..Len(classes)}
        remaining_length == IF length - Len(classes) > 0 THEN length - Len(classes) ELSE 0
        required == {r \in [1..Len(classes) -> DrawnChars] :
                        \A i \in 1..Len(classes) : r[i] \in secrets_choice(classes[i])}
        random == [1..remaining_length -> secrets_choice(characters)]
    IN  IF characters = {} THEN {GenOutcome("ValidationError", <<>>)}
        ELSE {GenOutcome("", password) :
                password \in UNION {shuffle(r \o rc) : r \in required, rc \in random}}

\* _generate_secure_password: the set of its outcomes
generate_secure_password(length, include_symbols, include_numbers, include_uppercase, include_lowercase, exclude_ambiguous) ==
    LET classes == gen_classes(include_symbols, include_numbers, include_uppercase,
                               include_lowercase, exclude_ambiguous)
        characters == UNION {classes[i] : i \in 1..Len(classes)}
        remaining_length == IF length - Len(classes) > 0 THEN length - Len(classes) ELSE 0
        required == {r \in [1..Len(classes) -> DrawnChars] :
                        \A i \in 1..Len(classes) : r[i] \in secrets_choice(classes[i])}
        random == [1..remaining_length -> secrets_choice(characters)]
    IN  IF characters = {} THEN {GenOutcome("ValidationError", <<>>)}
        ELSE {GenOutcome("", password) :
                password \in UNION {shuffle(r \o rc) : r \in required, rc \in random}}

\* generate_password: the length is validated, then the password generated
generate_password(data) ==
    IF data.length < MinLength \/ data.length > MaxLength
    THEN {GenOutcome("ValidationError", <<>>)}
    ELSE generate_secure_password(data.length, data.include_symbols,
                                  data.include_numbers, data.include_uppercase,
                                  data.include_lowercase, data.exclude_ambiguous)

\* POST generate_password/ : the response carries the password
GeneratePassword(r) ==
    /\ req[r].pc = "start"
    /\ \E out \in generate_password(req[r].data) :
          /\ req' = [req EXCEPT ![r].pc = "done"]
          /\ response' = Resp("generate_password", out.error,
                              IF out.error = "" THEN <<out.password>> ELSE <<>>)
    /\ UNCHANGED <<folders, now, cred, history, sharedCreds, sharedFolders, pwLog>>

-----------------------------------------------------------------------------
(* CredentialCreateSerializer: create with generate_password set            *)

\* min_value and max_value of password_length
MinPasswordLength == 8
MaxPasswordLength == 128

\* the characters the model lets the random source of the serializer
\* return: one of each class
CreateDrawnChars == {"a", "A", "2", "!"}

\* secrets.choice(chars) in _generate_password
create_choice(chars) == chars \cap CreateDrawnChars

\* password[:-1] + ch
replace_last(password, ch) ==
    IF password = <<>> THEN <<ch>> ELSE [password EXCEPT ![Len(password)] = ch]

\* if not re.search(class, password): password = password[:-1] + choice
ensure_class(password, class, replacements) ==
    IF re_search(class, password) THEN {password}
    ELSE {replace_last(password, ch) : ch \in create_choice(replacements)}

\* _generate_password, the draw: length characters of the selected classes
create_draw(length, include_symbols) ==
    [1..length -> create_choice(LowerChars \cup UpperChars \cup DigitChars
                                \cup (IF include_symbols THEN GenSymbolChars ELSE {}))]

\* _generate_password, the four checks that follow the draw, in their order
create_ensure(drawn, include_symbols) ==
    LET p1 == ensure_class(drawn, LowerChars, LowerChars)
        p2 == UNION {ensure_class(p, UpperChars, UpperChars) : p \in p1}
        p3 == UNION {ensure_class(p, DigitChars, DigitChars) : p \in p2}
    IN  IF include_symbols
        THEN UNION {ensure_class(p, GenSymbolChars, {"!","@","#","$","%","^","&","*"}) :
                    p \in p3}
        ELSE p3

\* CredentialViewSet.create with generate_password: validate() checks
\* password_length, replaces the password by a generated one, and create()
\* stores it
CreateCredentialGenerated(u, c, length, include_symbols, iv) ==
    /\ ~cred[c].exists
    /\ IF length < MinPasswordLength \/ length > MaxPasswordLength
       THEN /\ response' = Resp("create", "ValidationError", <<>>)
            /\ UNCHANGED <<folders, now, cred, history, sharedCreds, sharedFolders, req, pwLog>>
       ELSE \E drawn \in create_draw(length, include_symbols) :
               \E password \in create_ensure(drawn, include_symbols) :
                  CreateCredential(u, c, password, <<>>, FALSE, FALSE, iv, iv)

-----------------------------------------------------------------------------
(* Requests in flight.  No handler of credential/ or sharing/ opens a       *)
(* transaction or locks a row, so two requests interleave at the            *)
(* granularity of their database statements.  req lists the requests begun, *)
(* in the order of arrival; pc is the statement a request runs next.        *)

Request(op, pc, user, c, password, iv, email, days, instance, error) ==
    [op |-> op, pc |-> pc, user |-> user, c |-> c, password |-> password,
     iv |-> iv, email |-> email, days |-> days, instance |-> instance,
     error |-> error]

\* the request ends and its response leaves
Finish(r, error, body) ==
    /\ req' = [req EXCEPT ![r].pc = "done", ![r].error = error]
    /\ response' = Resp(req[r].op, error, body)

\* CredentialViewSet.update up to perform_update: get_object() SELECTs the
\* row into instance, is_valid() runs validate_password
BeginUpdate(u, c, password, iv) ==
    LET err == UpdateCredential_error(u, c, Some(password))
    IN  /\ Len(req) < MaxRequests
        /\ req' = Append(req, Request("update", IF err = "" THEN "save" ELSE "done",
                                      u, c, password, iv, "-", Null,
                                      IF err = "" THEN cred[c] ELSE NoCredential, err))
        /\ response' = IF err = "" THEN response ELSE Resp("update", err, <<>>)
        /\ UNCHANGED <<folders, now, cred, history, sharedCreds, sharedFolders, pwLog>>

\* perform_update: old_password is read from instance, serializer.save()
\* changes instance and instance.save() UPDATEs every column of the row
UpdateSave(r) ==
    LET q == req[r]
        old_password == decrypt_password(q.instance)
        credential == CredentialDetail_update(q.instance, Some(q.password),
                                              Null, Null, Null, q.iv, q.iv)
        more == q.password # <<>> /\ q.password # old_password /\ old_password # <<>>
    IN  /\ q.op = "update" /\ q.pc = "save"
        /\ cred' = [cred EXCEPT ![q.c] = credential]
        /\ IF more
           THEN /\ req' = [req EXCEPT ![r].pc = "exists"]
                /\ UNCHANGED response
           ELSE Finish(r, "", detail_data(credential, q.user))
        /\ UNCHANGED <<folders, now, history, sharedCreds, sharedFolders, pwLog>>

\* _save_password_history: the SELECT behind .exists()
HistExists(r) ==
    LET q == req[r]
        password_hash == sha256(decrypt_password(q.instance))
    IN  /\ q.op = "update" /\ q.pc = "exists"
        /\ req' = [req EXCEPT ![r].pc =
                     IF \E i \in 1..Len(history[q.c]) :
                            history[q.c][i].password_hash = password_hash
                     THEN "trim" ELSE "insert"]
        /\ UNCHANGED <<folders, now, cred, history, sharedCreds, sharedFolders, response, pwLog>>

\* _save_password_history: the INSERT of PasswordHistory.objects.create
HistInsert(r) ==
    LET q == req[r]
    IN  /\ q.op = "update" /\ q.pc = "insert"
        /\ history' = [history EXCEPT ![q.c] =
                          Append(@, [password_hash |-> sha256(decrypt_password(q.instance))])]
        /\ req' = [req EXCEPT ![r].pc = "trim"]
        /\ UNCHANGED <<folders, now, cred, sharedCreds, sharedFolders, response, pwLog>>

\* _save_password_history: the rows past the 10 newest are deleted (with at
\* most MaxRequests requests no row is past the 10 newest, so the SELECT of
\* the ids and the DELETE are one step here); then the response leaves
HistTrim(r) ==
    LET q == req[r]
        rows == history[q.c]
    IN  /\ q.op = "update" /\ q.pc = "trim"
        /\ history' = [history EXCEPT ![q.c] =
                          IF Len(rows) > HistoryLimit
                          THEN SubSeq(rows, Len(rows) - HistoryLimit + 1, Len(rows))
                          ELSE rows]
        /\ Finish(r, "", detail_data(
               CredentialDetail_update(q.instance, Some(q.password),
                                       Null, Null, Null, q.iv, q.iv), q.user))
        /\ UNCHANGED <<folders, now, cred, sharedCreds, sharedFolders, pwLog>>

\* ShareCredentialView.create up to perform_create: is_valid() runs
\* validate_user_email and validate(), whose duplicate check is a SELECT
BeginShare(u, c, email, days) ==
    LET err == IF validate_user_email(email) # "" THEN validate_user_email(email)
               ELSE SharedCredentialCreate_validate(c, email)
    IN  /\ Len(req) < MaxRequests
        /\ req' = Append(req, Request("share_credential",
                                      IF err = "" THEN "insert" ELSE "done",
                                      u, c, <<>>, 0, email, days, NoCredential, err))
        /\ response' = IF err = "" THEN response
                       ELSE Resp("share_credential", err, <<>>)
        /\ UNCHANGED <<folders, now, cred, history, sharedCreds, sharedFolders, pwLog>>

\* perform_create: get_object_or_404 among the requester's credentials, then
\* serializer.save() INSERTs; unique_together makes the database refuse a
\* second row of the pair, and nothing catches the IntegrityError
ShareInsert(r) ==
    LET q == req[r]
        row == SharedCreate_row(q.c, q.email, q.user, "read", q.days, TRUE)
        err == IF ~(cred[q.c].exists /\ cred[q.c].owner = q.user) THEN "NotFound"
               ELSE IF UniqueViolation(sharedCreds, row) THEN "IntegrityError"
               ELSE ""
    IN  /\ q.op = "share_credential" /\ q.pc = "insert"
        /\ sharedCreds' = IF err = "" THEN sharedCreds \cup {row} ELSE sharedCreds
        /\ Finish(r, err, <<>>)
        /\ UNCHANGED <<folders, now, cred, history, sharedFolders, pwLog>>

-----------------------------------------------------------------------------
(* folder/models.py, folder/serializers.py, folder/views.py: the folder tree *)

\* the folders, named by the integer value of their UUID: u2 owns the last
\* one, u1 the others; MissingId is the id of no folder
MaxFolders == 3
TreeIds == 1..MaxFolders
MissingId == MaxFolders + 1
InitFolders ==
    [f \in TreeIds |-> [owner |-> IF f = MaxFolders THEN "u2" ELSE "u1",
                        parent |-> Null, name |-> f]]

\* folder.children.all()
children(table, f) == {g \in DOMAIN table : table[g].parent = Some(f)}

RECURSIVE reach(_, _, _)
reach(table, S, n) ==
    IF n = 0 THEN S
    ELSE reach(table, S \cup UNION {children(table, g) : g \in S}, n - 1)

\* Folder.get_descendants: the children and, recursively, theirs
get_descendants(table, f) ==
    reach(table, children(table, f), Cardinality(DOMAIN table))

\* the recursion of get_descendants does not end when it meets a folder
\* that is among its own descendants (RecursionError, a 500 response)
get_descendants_error(table, f) ==
    IF \E g \in get_descendants(table, f) \cup {f} : g \in get_descendants(table, g)
    THEN "RecursionError" ELSE ""

\* the cycle check of FolderCreateUpdateSerializer.validate and of
\* FolderMoveSerializer.validate: the parent is neither the folder itself
\* nor one of its descendants
circular(table, f, parent) ==
    IF parent = f THEN "ValidationError"
    ELSE IF get_descendants_error(table, f) # "" THEN get_descendants_error(table, f)
    ELSE IF parent \in get_descendants(table, f) THEN "ValidationError"
    ELSE ""

\* FolderViewSet.get_queryset + get_object, IsFolderOwner
Folder_get_object(u, f) ==
    IF f \in DOMAIN folders /\ folders[f].owner = u THEN "" ELSE "NotFound"

\* FolderViewSet.partial_update with body {parent: ...}: the related field
\* looks the parent up, validate() finds no name in the body (the
\* uniqueness query matches nothing), then tests the parent's owner and
\* the cycle
UpdateFolder_error(u, f, parent) ==
    IF Folder_get_object(u, f) # "" THEN Folder_get_object(u, f)
    ELSE IF parent = Null THEN ""
    ELSE IF parent[1] \notin DOMAIN folders THEN "ValidationError"
    ELSE IF folders[parent[1]].owner # u THEN "ValidationError"
    ELSE circular(folders, f, parent[1])

\* a JSON value for new_parent_id: null, an integer, or the text of a UUID
MoveBody(kind, id) == [kind |-> kind, id |-> id]

\* IntegerField.to_internal_value: the canonical text of a UUID is not an
\* integer; an integer is kept, and the lookup by id reads it as UUID(int=)
IntegerField(value) ==
    IF value.kind = "text" THEN "ValidationError" ELSE ""

\* FolderMoveSerializer.validate_new_parent_id
validate_new_parent_id(u, value) ==
    IF value.kind = "null" THEN ""
    ELSE IF value.id \notin DOMAIN folders THEN "ValidationError"
    ELSE IF folders[value.id].owner # u THEN "ValidationError"
    ELSE ""

\* FolderViewSet.move up to the save: get_object, is_valid (the field, then
\* validate), the lookup of the new parent, the name test
MoveFolder_error(u, f, value) ==
    IF Folder_get_object(u, f) # "" THEN Folder_get_object(u, f)
    ELSE IF IntegerField(value) # "" THEN IntegerField(value)
    ELSE IF validate_new_parent_id(u, value) # "" THEN validate_new_parent_id(u, value)
    ELSE IF value.kind = "null" THEN ""
    ELSE IF circular(folders, f, value.id) # "" THEN circular(folders, f, value.id)
    ELSE IF \E g \in DOMAIN folders \ {f} :
               /\ folders[g].name = folders[f].name
               /\ folders[g].parent = Some(value.id)
               /\ folders[g].owner = u
         THEN "BadRequest"
    ELSE ""

\* the parent a valid move body names
new_parent(value) == IF value.kind = "null" THEN Null ELSE Some(value.id)

\* folder.parent = new_parent; folder.save(): every column of the instance
Folder_save(instance, parent) == [instance EXCEPT !.parent = parent]

\* FolderViewSet.move as one step
MoveFolder(u, f, value) ==
    LET err == MoveFolder_error(u, f, value)
    IN  /\ folders' = IF err = ""
                      THEN [folders EXCEPT ![f] = Folder_save(@, new_parent(value))]
                      ELSE folders
        /\ response' = Resp("move", err, <<>>)
        /\ UNCHANGED <<now, cred, history, sharedCreds, sharedFolders, req, pwLog>>

\* FolderViewSet.partial_update as one step
UpdateFolder(u, f, parent) ==
    LET err == UpdateFolder_error(u, f, parent)
    IN  /\ folders' = IF err = ""
                      THEN [folders EXCEPT ![f] = Folder_save(@, parent)]
                      ELSE folders
        /\ response' = Resp("update_folder", err, <<>>)
        /\ UNCHANGED <<now, cred, history, sharedCreds, sharedFolders, req, pwLog>>

\* FolderViewSet.move up to folder.save(): the SELECTs of get_object, of
\* the validators and of the view
BeginMoveFolder(u, f, value) ==
    LET err == MoveFolder_error(u, f, value)
    IN  /\ Len(req) < MaxRequests
        /\ req' = Append(req, Request("move", IF err = "" THEN "save" ELSE "done",
                                      u, f, <<>>, 0, "-", new_parent(value),
                                      IF err = "" THEN folders[f] ELSE Null, err))
        /\ response' = IF err = "" THEN response ELSE Resp("move", err, <<>>)
        /\ UNCHANGED <<now, cred, history, sharedCreds, sharedFolders, pwLog, folders>>

\* FolderViewSet.partial_update up to serializer.save()
BeginUpdateFolder(u, f, parent) ==
    LET err == UpdateFolder_error(u, f, parent)
    IN  /\ Len(req) < MaxRequests
        /\ req' = Append(req, Request("update_folder",
                                      IF err = "" THEN "save" ELSE "done",
                                      u, f, <<>>, 0, "-", parent,
                                      IF err = "" THEN folders[f] ELSE Null, err))
        /\ response' = IF err = "" THEN response ELSE Resp("update_folder", err, <<>>)
        /\ UNCHANGED <<now, cred, history, sharedCreds, sharedFolders, pwLog, folders>>

\* folder.save() of move and instance.save() of partial_update: the UPDATE
\* of the row from the instance read at the start of the request
FolderSave(r) ==
    LET q == req[r]
    IN  /\ q.op \in {"move", "update_folder"} /\ q.pc = "save"
        /\ folders' = [folders EXCEPT ![q.c] = Folder_save(q.instance, q.days)]
        /\ Finish(r, "", <<>>)
        /\ UNCHANGED <<now, cred, history, sharedCreds, sharedFolders, pwLog>>

-----------------------------------------------------------------------------
(* The store the specifications start from: u1 has created credential c1    *)

InitStore ==
    /\ now = 0
    /\ cred = [c \in CredIds |->
                 CredentialDetail_create("u1", PwA, <<>>, FALSE, FALSE, 1, 1)]
    /\ history = [c \in CredIds |-> <<>>]
    /\ sharedCreds = {}
    /\ sharedFolders = {}
    /\ response = NoResponse
    /\ req = <<>>
    /\ pwLog = <<>>
    /\ folders = InitFolders

-----------------------------------------------------------------------------
(* SpecShare: every handler of the credential grants, one request at a time *)

SharePerms == {"read", "admin"}
ShareDays == {Null, Some(-1), Some(0), Some(1)}
ExtendDays == {Null, Some(0), Some(1), Some(MaxExtendDays + 1)}
\* PATCH bodies: <<permission, expires_at, is_active>>, each optional
Patches ==
    {<<Some(p), Null, Null>> : p \in SharePerms}
    \cup {<<Null, Some(x), Null>> : x \in {Null, Some(now), Some(now + 1)}}
    \cup {<<Null, Null, Some(a)>> : a \in BOOLEAN}

\* the owner and one other user send the requests; u3 is a grantee only
Requesters == {"u1", "u2"}
\* share bodies: <<permission, expires_in_days, is_active>>
ShareBodies ==
    {<<p, d, TRUE>> : p \in SharePerms, d \in ShareDays}
    \cup {<<"read", Null, FALSE>>}

NextShare ==
    \/ \E u \in Requesters, c \in CredIds, e \in Users \cup {"nobody"},
          x \in ShareBodies :
          ShareCredential(u, c, e, x[1], x[2], x[3])
    \/ \E u \in Requesters, e \in Users : ViewSetCreateCredentialShare(u, e)
    \/ \E u \in Requesters, g \in sharedCreds, x \in Patches :
          UpdateCredentialShare(u, g, x[1], x[2], x[3])
    \/ \E u \in Requesters, g \in sharedCreds : DestroyCredentialShare(u, g)
    \/ \E u \in Requesters, g \in sharedCreds, d \in ExtendDays : ExtendCredentialShare(u, g, d)
    \/ \E u \in Requesters, g \in sharedCreds : ToggleCredentialShare(u, g)
    \/ \E u \in Requesters, c \in CredIds, e \in Users : RevokeCredentialShare(u, c, e)
    \/ \E u \in Requesters : CleanupExpired(u)
    \/ Tick

SpecShare == InitStore /\ [][NextShare]_vars

-----------------------------------------------------------------------------
(* SpecFolderShare: the handlers that create, change, revoke and sweep      *)
(* folder grants; u1 (owner of f1) and u2 (owner of f2) send the requests,  *)
(* every user can be named as grantee; the clock stands still               *)

FolderDays == {Null, Some(-1)}
FolderPatches == {<<Some("write"), Null, Null>>, <<Null, Null, Some(FALSE)>>}

NextFolderShare ==
    \/ \E u \in Requesters, f \in Folders, b \in Folders, e \in Users,
          d \in FolderDays :
          ShareFolder(u, f, b, e, "read", d, TRUE)
    \/ \E u \in Requesters, b \in Folders, e \in Users, d \in FolderDays :
          ViewSetCreateFolderShare(u, b, e, "read", d, TRUE)
    \/ \E u \in Requesters, g \in sharedFolders, x \in FolderPatches :
          UpdateFolderShare(u, g, x[1], x[2], x[3])
    \/ \E u \in Requesters, g \in sharedFolders : ToggleFolderShare(u, g)
    \/ \E u \in Requesters, f \in Folders, e \in Users : RevokeFolderShare(u, f, e)
    \/ \E u \in Requesters : CleanupExpired(u)

SpecFolderShare == InitStore /\ [][NextFolderShare]_vars

-----------------------------------------------------------------------------
(* SpecGrants: credential grants and folder grants side by side: shares of  *)
(* the resource named in the URL, extension, toggling, revocation, the      *)
(* sweep and the clock                                                      *)

GrantDays == {Null, Some(-1), Some(1)}
GrantExtendDays == {Null, Some(-1), Some(0), Some(1), Some(MaxExtendDays + 1)}

\* u1 owns c1 and f1, shares c1 with u2 and u3 and f1 with u2; u2 also
\* sends requests
GrantFolders == {"f1"}
GrantGrantees == {"u2", "u3"}
FolderGrantees == {"u2"}

NextGrants ==
    \/ \E u \in Requesters, c \in CredIds, e \in GrantGrantees, d \in GrantDays :
          ShareCredential(u, c, e, "read", d, TRUE)
    \/ \E u \in Requesters, f \in GrantFolders, e \in FolderGrantees, d \in GrantDays :
          ShareFolder(u, f, f, e, "read", d, TRUE)
    \/ \E u \in Requesters, g \in sharedCreds, d \in GrantExtendDays :
          ExtendCredentialShare(u, g, d)
    \/ \E u \in Requesters, g \in sharedFolders, d \in GrantExtendDays :
          ExtendFolderShare(u, g, d)
    \/ \E u \in Requesters, g \in sharedCreds : ToggleCredentialShare(u, g)
    \/ \E u \in Requesters, g \in sharedFolders : ToggleFolderShare(u, g)
    \/ \E u \in Requesters, c \in CredIds, e \in GrantGrantees :
          RevokeCredentialShare(u, c, e)
    \/ \E u \in Requesters, f \in GrantFolders, e \in GrantGrantees :
          RevokeFolderShare(u, f, e)
    \/ \E u \in Requesters : CleanupExpired(u)
    \/ Tick

SpecGrants == InitStore /\ [][NextGrants]_vars

-----------------------------------------------------------------------------
(* SpecVault: the handlers of one credential, one request at a time; the    *)
(* owner may set is_shared, which lets u2 in; no grants are made            *)

CreatePasswords == {PwWeak, PwA}
OptPasswords == {Null, Some(PwEmpty), Some(PwWeak), Some(PwA), Some(PwB)}
OptNotes == {Null, Some(<<"n">>)}
\* PATCH bodies: <<password, notes, is_favorite, is_shared>>, each optional
CredentialPatches ==
    {<<p, Null, Null, Null>> : p \in OptPasswords}
    \cup {<<p, Some(<<"n">>), Null, Null>> : p \in {Null, Some(PwB)}}
    \cup {<<Null, Some(<<>>), Null, Null>>}
    \cup {<<Null, Null, Null, Some(a)>> : a \in BOOLEAN}

NextVault ==
    \/ \E u \in Requesters, c \in CredIds, p \in CreatePasswords \cup {PwEmpty},
          s \in BOOLEAN, iv \in IVs :
          CreateCredential(u, c, p, <<>>, FALSE, s, iv, iv)
    \/ \E u \in Requesters, c \in CredIds, x \in CredentialPatches, iv \in IVs :
          UpdateCredential(u, c, x[1], x[2], x[3], x[4], iv, iv)
    \/ \E u \in Requesters, c \in CredIds : DestroyCredential(u, c)
    \/ \E u \in Requesters, c \in CredIds : MarkUsed(u, c)
    \/ \E u \in Requesters, c \in CredIds : ToggleFavorite(u, c)
    \/ \E u \in Requesters, c \in CredIds : RevealPassword(u, c)
    \/ \E u \in Requesters, c \in CredIds : RetrieveCredential(u, c)
    \/ Tick

SpecVault == InitStore /\ [][NextVault]_vars

-----------------------------------------------------------------------------
(* SpecLife: one credential from creation to deletion, with its history and *)
(* its grants: password changes, marking as shared, shares, use, deletion   *)

LifePatches ==
    {<<Some(PwA), Null, Null, Null>>, <<Some(PwB), Null, Null, Null>>,
     <<Null, Null, Null, Some(TRUE)>>}

NextLife ==
    \/ \E u \in Requesters, c \in CredIds, s \in BOOLEAN, iv \in IVs :
          CreateCredential(u, c, PwA, <<>>, FALSE, s, iv, iv)
    \/ \E u \in Requesters, c \in CredIds, x \in LifePatches, iv \in IVs :
          UpdateCredential(u, c, x[1], x[2], x[3], x[4], iv, iv)
    \/ \E u \in Requesters, c \in CredIds, e \in GrantGrantees :
          ShareCredential(u, c, e, "read", Null, TRUE)
    \/ \E u \in Requesters, c \in CredIds : DestroyCredential(u, c)
    \/ \E u \in Requesters, c \in CredIds : MarkUsed(u, c)
    \/ Tick

SpecLife == InitStore /\ [][NextLife]_vars

-----------------------------------------------------------------------------
(* SpecHistory: the owner changes the password of one credential again and  *)
(* again; pwLog records, oldest first, every plaintext an update replaced    *)

\* the passwords an update may carry: one never used before, the first one,
\* and the credential's initial one
HistoryPasswords == {FreshPw(Len(pwLog) + 1), FreshPw(1), PwA}

ChangePassword(u, c, password, iv) ==
    /\ Len(pwLog) < MaxChanges
    /\ CredentialViewSet_update(u, c, Some(password), Null, Null, Null, iv, iv)
    /\ pwLog' = IF decrypt_password(cred'[c]) # decrypt_password(cred[c])
                THEN Append(pwLog, decrypt_password(cred[c]))
                ELSE pwLog
    /\ UNCHANGED <<folders, now, sharedCreds, sharedFolders, req>>

NextHistory ==
    \E c \in CredIds, password \in HistoryPasswords, iv \in IVs :
        ChangePassword(cred[c].owner, c, password, iv)

SpecHistory == InitStore /\ [][NextHistory]_vars

-----------------------------------------------------------------------------
(* SpecRace: at most MaxRequests updates and shares of one credential, the  *)
(* statements of the requests in flight interleaved in every order          *)

RacePasswords == {PwA, PwB, PwWeak}
RaceGrantees == {"u1", "u2", "u3"}
RaceDays == {Null, Some(1)}

NextRace ==
    \/ \E c \in CredIds, password \in RacePasswords, iv \in IVs :
          BeginUpdate(cred[c].owner, c, password, iv)
    \/ \E r \in 1..Len(req) : UpdateSave(r)
    \/ \E r \in 1..Len(req) : HistExists(r)
    \/ \E r \in 1..Len(req) : HistInsert(r)
    \/ \E r \in 1..Len(req) : HistTrim(r)
    \/ \E c \in CredIds, email \in RaceGrantees, days \in RaceDays :
          BeginShare(cred[c].owner, c, email, days)
    \/ \E r \in 1..Len(req) : ShareInsert(r)
    \/ Tick

SpecRace == InitStore /\ [][NextRace]_vars

-----------------------------------------------------------------------------
(* SpecPerm: has_permission applied to every grant row and required level   *)

PermExpiry == {Null} \cup {Some(t) : t \in 0..MaxTime}

InitPerm ==
    /\ now \in 0..MaxTime
    /\ cred = [c \in CredIds |-> NoCredential]
    /\ history = [c \in CredIds |-> <<>>]
    /\ \E kind \in {"credential", "folder"}, p \in Levels, x \in PermExpiry,
          a \in BOOLEAN :
          LET g == Grant(IF kind = "credential" THEN "c1" ELSE "f1",
                         "u2", p, "u1", x, a)
          IN  /\ sharedCreds = IF kind = "credential" THEN {g} ELSE {}
              /\ sharedFolders = IF kind = "folder" THEN {g} ELSE {}
    /\ response = NoResponse
    /\ req = <<>>
    /\ pwLog = <<>>
    /\ folders = InitFolders

\* a caller evaluates obj.has_permission(permission)
CallHasPermission(g, permission) ==
    /\ response' = Resp("has_permission", "", <<permission, has_permission(g, permission)>>)
    /\ UNCHANGED <<folders, now, cred, history, sharedCreds, sharedFolders, req, pwLog>>

NextPerm ==
    \E g \in sharedCreds \cup sharedFolders, p \in Levels : CallHasPermission(g, p)

SpecPerm == InitPerm /\ [][NextPerm]_vars

-----------------------------------------------------------------------------
(* SpecGenerate: generate_password applied to every request of GenRequests  *)

GenLengths == {MinLength - 1, MinLength, MinLength + 1}
GenLongLengths == {MaxLength, MaxLength + 1}

GenData(length, sym, num, up, low, excl) ==
    [length |-> length, include_symbols |-> sym, include_numbers |-> num,
     include_uppercase |-> up, include_lowercase |-> low, exclude_ambiguous |-> excl]

\* every class selection at the short lengths; at the long lengths the
\* selections of one class whose drawn characters are a single character
GenRequests ==
    {GenData(n, sym, num, up, low, excl) :
        n \in GenLengths, sym \in BOOLEAN, num \in BOOLEAN, up \in BOOLEAN,
        low \in BOOLEAN, excl \in BOOLEAN}
    \cup {GenData(n, FALSE, FALSE, FALSE, TRUE, TRUE) : n \in GenLongLengths}
    \cup {GenData(n, TRUE, FALSE, FALSE, FALSE, FALSE) : n \in GenLongLengths}
    \cup {GenData(n, FALSE, FALSE, FALSE, FALSE, FALSE) : n \in GenLongLengths}

InitGenerate ==
    /\ now = 0
    /\ cred = [c \in CredIds |-> NoCredential]
    /\ history = [c \in CredIds |-> <<>>]
    /\ sharedCreds = {}
    /\ sharedFolders = {}
    /\ response = NoResponse
    /\ req \in {<<[op |-> "generate_password", pc |-> "start", data |-> d]>> :
                   d \in GenRequests}
    /\ pwLog = <<>>
    /\ folders = InitFolders

NextGenerate == \E r \in 1..Len(req) : GeneratePassword(r)

SpecGenerate == InitGenerate /\ [][NextGenerate]_vars

-----------------------------------------------------------------------------
(* SpecAnalyze: _analyze_password_strength applied to every password of     *)
(* AnalyzedPasswords                                                        *)

MaxShortLen == 3
ShortChars == {"a", "b", "c", "A", "1", "!"}

\* s repeated up to n characters
Repeat(s, n) == [i \in 1..n |-> s[((i - 1) % Len(s)) + 1]]

\* every password of at most MaxShortLen characters of ShortChars
ShortPasswords == UNION {[1..n -> ShortChars] : n \in 0..MaxShortLen}

\* passwords that reach every level, both clamps and every penalty
PickedPasswords ==
    {PwA,
     <<"P","a","s","s","w","0","r","d","!">>,
     <<"X","k","9","#","m","Q","2","$","v","T","7","&","b","N","4","!">>,
     <<"a","a","a","a","a","a","a","a">>,
     <<"q","w","e","r","t","y","1","2">>,
     <<"T","r","0","u","b","4","d","o","r","&","3">>,
     <<"p","a","s","s","w","o","r","d","1","2","3","4">>,
     <<"A","d","m","i","n","2","0","2","4","!">>,
     <<"X","k","9","#","m","Q","2","$","v","T","7","&">>,
     <<"x","k","9","m","q","2","v","t","7","b","n","4","h","z","p","w">>,
     <<"X","k","9","m","Q","2","v","T","7","b","N","4","h","Z","p","W">>,
     <<"X","k","9","#","m","Q","2","$">>,
     <<"h","e","l","l","o">>,
     <<"x",".","/",";","y">>,
     <<"X","k","9","#","m","Q","2","$","v","T","7","&","b","N","4","!","X","k">>,
     <<"z","y","x","9","8","7","6","5">>,
     <<"T","t","7","!","T","t","7","!","T","t","7","!","T","t","7","!">>,
     <<"X","k","9","#","X","k","9","#","m","Q","2","$","m","Q","2","$">>}

\* the longest passwords of one and of four classes that still convert to a
\* float, and the next longer ones
LongPasswords ==
    {Repeat(<<"a","B","3","!">>, n) : n \in {156, 157}}
    \cup {Repeat(<<"a">>, n) : n \in {217, 218}}

AnalyzedPasswords == ShortPasswords \cup PickedPasswords \cup LongPasswords

InitAnalyze ==
    /\ now = 0
    /\ cred = [c \in CredIds |-> NoCredential]
    /\ history = [c \in CredIds |-> <<>>]
    /\ sharedCreds = {}
    /\ sharedFolders = {}
    /\ response = NoResponse
    /\ req \in {<<[op |-> "analyze_password_strength", pc |-> "start", data |-> p]>> :
                   p \in AnalyzedPasswords}
    /\ pwLog = <<>>
    /\ folders = InitFolders

NextAnalyze == \E r \in 1..Len(req) : AnalyzePasswordStrength(r)

SpecAnalyze == InitAnalyze /\ [][NextAnalyze]_vars

-----------------------------------------------------------------------------
(* SpecStrength: a credential created with one password of                  *)
(* PickedPasswords and updated to another                                   *)

StrengthPasswords == PickedPasswords \cup {PwWeak}

InitStrength ==
    /\ now = 0
    /\ cred = [c \in CredIds |-> NoCredential]
    /\ history = [c \in CredIds |-> <<>>]
    /\ sharedCreds = {}
    /\ sharedFolders = {}
    /\ response = NoResponse
    /\ req \in {<<[op |-> "strength", pc |-> "start",
                   data |-> [create |-> p, update |-> q]]>> :
                   p \in StrengthPasswords, q \in StrengthPasswords}
    /\ pwLog = <<>>
    /\ folders = InitFolders

NextStrength ==
    \/ \E r \in 1..Len(req), c \in CredIds :
          CreateCredential("u1", c, req[r].data.create, <<>>, FALSE, FALSE, 1, 1)
    \/ \E r \in 1..Len(req), c \in CredIds :
          UpdateCredential("u1", c, Some(req[r].data.update), Null, Null, Null, 1, 1)
    \/ \E c \in CredIds : DestroyCredential("u1", c)

SpecStrength == InitStrength /\ [][NextStrength]_vars

-----------------------------------------------------------------------------
(* SpecUsedRace: mark_used requests between the statements of at most       *)
(* MaxRequests updates of one credential                                    *)

NextUsedRace ==
    \/ \E c \in CredIds, password \in RacePasswords, iv \in IVs :
          BeginUpdate(cred[c].owner, c, password, iv)
    \/ \E r \in 1..Len(req) : UpdateSave(r)
    \/ \E r \in 1..Len(req) : HistExists(r)
    \/ \E r \in 1..Len(req) : HistInsert(r)
    \/ \E r \in 1..Len(req) : HistTrim(r)
    \/ \E c \in CredIds : MarkUsed(cred[c].owner, c)
    \/ Tick

SpecUsedRace == InitStore /\ [][NextUsedRace]_vars

-----------------------------------------------------------------------------
(* SpecCreateGenerated: one credential created with generate_password set   *)

CreateLengths == {MinPasswordLength - 1, MinPasswordLength}

InitCreateGenerated ==
    /\ now = 0
    /\ cred = [c \in CredIds |-> NoCredential]
    /\ history = [c \in CredIds |-> <<>>]
    /\ sharedCreds = {}
    /\ sharedFolders = {}
    /\ response = NoResponse
    /\ req \in {<<[op |-> "create", pc |-> "start",
                   data |-> [password_length |-> n, include_symbols |-> sym]]>> :
                   n \in CreateLengths, sym \in BOOLEAN}
    /\ pwLog = <<>>
    /\ folders = InitFolders

NextCreateGenerated ==
    \E r \in 1..Len(req), c \in CredIds :
        CreateCredentialGenerated("u1", c, req[r].data.password_length,
                                  req[r].data.include_symbols, 1)

SpecCreateGenerated == InitCreateGenerated /\ [][NextCreateGenerated]_vars

-----------------------------------------------------------------------------
(* SpecSweep: grants made, toggled, listed by their grantee and swept while *)
(* the clock advances                                                       *)

NextSweep ==
    \/ \E c \in CredIds, e \in GrantGrantees, d \in GrantDays :
          ShareCredential(cred[c].owner, c, e, "read", d, TRUE)
    \/ \E f \in GrantFolders, e \in FolderGrantees, d \in GrantDays :
          ShareFolder(Folder_owner(f), f, f, e, "read", d, TRUE)
    \/ \E g \in sharedCreds : ToggleCredentialShare(CredGrantOwner(g), g)
    \/ \E g \in sharedFolders : ToggleFolderShare(FolderGrantOwner(g), g)
    \/ \E u \in GrantGrantees : MySharedCredentials(u)
    \/ \E u \in GrantGrantees : MySharedFolders(u)
    \/ \E u \in Staff : CleanupExpired(u)
    \/ Tick

SpecSweep == InitStore /\ [][NextSweep]_vars

-----------------------------------------------------------------------------
(* SpecOwner: the life of one credential under requests of two users whose  *)
(* create and update bodies may name an owner                               *)

BodyOwners == {Null} \cup {Some(u) : u \in Requesters}

NextOwner ==
    \/ \E u \in Requesters, c \in CredIds, o \in BodyOwners, s \in BOOLEAN, iv \in IVs :
          CreateCredentialBody(u, c, o, PwA, s, iv)
    \/ \E u \in Requesters, c \in CredIds, o \in BodyOwners, x \in LifePatches, iv \in IVs :
          UpdateCredentialBody(u, c, o, x[1], x[4], iv)
    \/ \E u \in Requesters, c \in CredIds, e \in GrantGrantees :
          ShareCredential(u, c, e, "read", Null, TRUE)
    \/ \E u \in Requesters, c \in CredIds, e \in GrantGrantees :
          RevokeCredentialShare(u, c, e)
    \/ \E u \in Requesters, c \in CredIds : DestroyCredential(u, c)
    \/ \E u \in Requesters, c \in CredIds : MarkUsed(u, c)
    \/ \E u \in Requesters, c \in CredIds : ToggleFavorite(u, c)
    \/ Tick

SpecOwner == InitStore /\ [][NextOwner]_vars

-----------------------------------------------------------------------------
(* SpecTree: u1 and u2 move and update the folders one request at a time,   *)
(* next to at most MaxRequests requests of u1 whose statements interleave   *)

MoveBodies ==
    {MoveBody("null", 0)}
    \cup {MoveBody("int", id) : id \in TreeIds \cup {MissingId}}
    \cup {MoveBody("text", 1)}
ParentBodies == {Null} \cup {Some(id) : id \in TreeIds \cup {MissingId}}

\* the requests whose statements interleave: u1 puts one of the folders
\* 1 and 2 under the other
RacingFolders == {1, 2}

NextTree ==
    \/ \E u \in Requesters, f \in TreeIds, value \in MoveBodies : MoveFolder(u, f, value)
    \/ \E u \in Requesters, f \in TreeIds, parent \in ParentBodies : UpdateFolder(u, f, parent)
    \/ \E f \in RacingFolders : \E id \in RacingFolders \ {f} :
          BeginMoveFolder("u1", f, MoveBody("int", id))
    \/ \E f \in RacingFolders : \E id \in RacingFolders \ {f} :
          BeginUpdateFolder("u1", f, Some(id))
    \/ \E r \in 1..Len(req) : FolderSave(r)

SpecTree == InitStore /\ [][NextTree]_vars

-----------------------------------------------------------------------------
(* Properties *)

\* the owner of the resource of a grant of either table
OwnerOfGrant(g) == IF g \in sharedCreds THEN CredGrantOwner(g) ELSE FolderGrantOwner(g)
TableOf(g) == IF g \in sharedCreds THEN sharedCreds ELSE sharedFolders
AllGrants == sharedCreds \cup sharedFolders

\* C2: authorize is false for the grantee (a non-owner) at every time
\* strictly after the grant's expires_at, for reading and for writing, also
\* while is_active is still true and no sweep has run; so a grant created
\* already expired never authorizes.
C2_ExpiredGrantNeverAuthorizes ==
    \A g \in AllGrants :
        (g.expires_at # Null /\ now > g.expires_at[1] /\ g.user # OwnerOfGrant(g))
        => \A safe \in BOOLEAN :
              ~CanAccessSharedContent(TableOf(g), OwnerOfGrant(g), g.res, g.user, safe)

\* a share with expires_in_days = -1 has just succeeded: the grant is active,
\* of permission admin, already expired, and no sweep has touched it
C2_Witness ==
    /\ response.op = "share_credential"
    /\ response.error = ""
    /\ \E g \in sharedCreds :
          /\ g.is_active /\ g.permission = "admin"
          /\ g.expires_at = Some(now - 1)
          /\ g.user # CredGrantOwner(g)

\* the total order read < write < share < admin of the specification
RankOrder == <<"read", "write", "share", "admin">>
Rank(p) == CHOOSE i \in 1..Len(RankOrder) : RankOrder[i] = p

\* C3: has_permission(p) is true iff the grant is active, not expired, and
\* its permission ranks at least p in read < write < share < admin; so
\* 'read' is granted by every permission of a live grant and 'admin' only by
\* admin.
C3_HasPermissionIffActiveLiveRank ==
    response.op = "has_permission" =>
        \A g \in AllGrants :
            LET p == response.body[1]
                live == g.is_active /\ ~(g.expires_at # Null /\ g.expires_at[1] < now)
            IN  /\ response.body[2] = (live /\ Rank(g.permission) >= Rank(p))
                /\ (p = "read" => response.body[2] = live)
                /\ (p = "admin" /\ response.body[2] => g.permission = "admin")

\* has_permission('share') was evaluated to true on a live grant that is not admin
C3_Witness ==
    /\ response.op = "has_permission"
    /\ response.body = <<"share", TRUE>>
    /\ \E g \in AllGrants : g.permission = "share" /\ g.expires_at = Some(now)

\* no two rows of a table have the same (resource, grantee)
OneGrantPerPair(table) ==
    \A g, h \in table : (g.res = h.res /\ g.user = h.user) => g = h

\* C4: there is at most one grant per (resource, grantee), and a share call
\* by the resource's owner for a pair that already has a grant fails with
\* DuplicateGrant and leaves the tables unchanged.
C4_DuplicateShareFailsTyped ==
    [][/\ OneGrantPerPair(sharedCreds') /\ OneGrantPerPair(sharedFolders')
       /\ \A u \in Users, f \in Folders, b \in Folders, e \in Users, d \in FolderDays :
            (/\ ShareFolder(u, f, b, e, "read", d, TRUE)
             /\ Folder_owner(f) = u /\ e # u
             /\ \E g \in sharedFolders : g.res = f /\ g.user = e)
            => (response'.error = "DuplicateGrant" /\ sharedFolders' = sharedFolders)
       /\ \A u \in Users, c \in CredIds, e \in Users, x \in ShareBodies :
            (/\ ShareCredential(u, c, e, x[1], x[2], x[3])
             /\ cred[c].owner = u /\ e # u
             /\ \E g \in sharedCreds : g.res = c /\ g.user = e)
            => (response'.error = "DuplicateGrant" /\ sharedCreds' = sharedCreds)
      ]_vars

\* C5: no stored grant has the owner of its resource as grantee (share
\* refuses the owner of the resource actually shared as grantee).
C5_NoGrantToOwner ==
    \A g \in AllGrants : g.user # OwnerOfGrant(g)


\* the grant condition of reveal: the owner, or a grantee of a credential
\* marked shared whose grant is active, unexpired and of level read or above
RevealAuthorized(u, c) ==
    /\ cred[c].exists
    /\ \/ cred[c].owner = u
       \/ /\ cred[c].is_shared
          /\ \E g \in sharedCreds :
                g.res = c /\ g.user = u /\ has_permission(g, "read")

\* C1: reveal_password answers with the plaintext only to the owner or to a
\* grantee holding an active, unexpired grant of level read or above on a
\* credential marked shared; every other requester is refused (as denied or
\* as not found) and the answer carries no plaintext.
C1_RevealOnlyWhenAuthorized ==
    [][\A u \in Users, c \in CredIds :
          (RevealPassword(u, c) /\ ~RevealAuthorized(u, c))
              => /\ response'.error \in {"PermissionDenied", "NotFound"}
                 /\ response'.body = <<>>]_vars

\* C9: a step of update changes password_changed_at only when the stored
\* plaintext differs afterwards; an empty or an equal password leaves it.
C9_ChangedAtOnlyOnRealChange ==
    [][\A c \in CredIds :
          (response'.op = "update" /\ cred[c].exists /\ cred'[c].exists
           /\ cred'[c].password_changed_at # cred[c].password_changed_at)
              => decrypt_password(cred'[c]) # decrypt_password(cred[c])]_vars

\* C10: in every state password_strength is the strength of the stored
\* plaintext, 0 when there is none.
C10_StrengthMatchesStoredPassword ==
    \A c \in CredIds :
        cred[c].exists =>
            cred[c].password_strength =
                calculate_password_strength(decrypt_password(cred[c]))


\* the last n elements of a sequence
LastN(seq, n) ==
    IF Len(seq) <= n THEN seq ELSE SubSeq(seq, Len(seq) - n + 1, Len(seq))

PairwiseDistinct(seq) ==
    \A i, j \in 1..Len(seq) : i # j => seq[i] # seq[j]

\* C6: after every update the credential has at most 10 history entries;
\* when the replaced passwords are pairwise distinct the entries are the
\* hashes of the (at most) 10 most recently replaced ones, oldest evicted
\* first, so that after 11 such changes exactly 10 remain.
C6_HistoryKeepsTenMostRecent ==
    \A c \in CredIds :
        /\ Len(history[c]) <= HistoryLimit
        /\ PairwiseDistinct(pwLog) =>
              history[c] = [i \in 1..Len(LastN(pwLog, HistoryLimit)) |->
                              [password_hash |-> sha256(LastN(pwLog, HistoryLimit)[i])]]

C6_Witness ==
    /\ Len(pwLog) = HistoryLimit + 1
    /\ PairwiseDistinct(pwLog)
    /\ Len(history["c1"]) = HistoryLimit
    /\ history["c1"][1].password_hash = sha256(pwLog[2])
    /\ response.op = "update"


NoDuplicateHash(c) ==
    \A i, j \in 1..Len(history[c]) :
        i # j => history[c][i].password_hash # history[c][j].password_hash

\* C7: under every interleaving of two concurrent updates of a credential
\* its history never holds two entries of the same hash, and a step that
\* changes the stored password also sets password_changed_at to the time of
\* that step (the refresh of the update whose password is stored is kept).
C7_UpdateAtomicUnderRace ==
    [][\A c \in CredIds :
          /\ NoDuplicateHash(c)'
          /\ decrypt_password(cred'[c]) # decrypt_password(cred[c])
                => cred'[c].password_changed_at = now]_vars

\* the share requests of one pair that have ended
EndedShares(c, email) ==
    {r \in 1..Len(req) : /\ req[r].op = "share_credential" /\ req[r].pc = "done"
                         /\ req[r].c = c /\ req[r].email = email}

\* C8: of the share requests of the owner for one (credential, grantee)
\* that have ended, exactly one created the grant and every other failed
\* with DuplicateGrant; two grants of the pair never coexist.
C8_ConcurrentShareOneWinner ==
    /\ OneGrantPerPair(sharedCreds)
    /\ \A c \in CredIds, email \in Users :
          (email # cred[c].owner /\ EndedShares(c, email) # {}) =>
             /\ Cardinality({r \in EndedShares(c, email) : req[r].error = ""}) = 1
             /\ \A r \in EndedShares(c, email) :
                   req[r].error \in {"", "DuplicateGrant"}


\* what reveal_password answers to the owner in the next state
RevealedToOwner(c) ==
    IF decrypt_password(cred'[c]) = <<>> THEN Null
    ELSE Some(decrypt_password(cred'[c]))

HasHash(rows, password) ==
    \E i \in 1..Len(rows) : rows[i].password_hash = sha256(password)

\* C11: after a successful update whose password is present and differs
\* from the stored one, reveal by the owner returns the new password and the
\* history holds the hash of the old one (as its only entry when the history
\* was empty); an update whose password equals the stored one adds no entry.
C11_PasswordChangeStoresAndRecords ==
    [][\A u \in Requesters, c \in CredIds, x \in CredentialPatches, iv \in IVs :
          (/\ UpdateCredential(u, c, x[1], x[2], x[3], x[4], iv, iv)
           /\ x[1] # Null /\ response'.error = "")
          => LET p_old == decrypt_password(cred[c])
             IN  IF x[1][1] # p_old
                 THEN /\ RevealedToOwner(c) = x[1]
                      /\ HasHash(history'[c], p_old)
                      /\ history[c] = <<>> =>
                            history'[c] = <<[password_hash |-> sha256(p_old)]>>
                 ELSE history'[c] = history[c]]_vars


\* C12: a successful update that carries a notes field n, the empty string
\* included, leaves the stored notes decrypting to exactly n; notes never
\* set decrypt to the empty string.
C12_NotesRewrittenWhenPresent ==
    [][\A u \in Requesters, c \in CredIds, x \in CredentialPatches, iv \in IVs :
          /\ (/\ UpdateCredential(u, c, x[1], x[2], x[3], x[4], iv, iv)
              /\ x[2] # Null /\ response'.error = "")
             => decrypt_notes(cred'[c]) = x[2][1]
          /\ (cred'[c].exists /\ cred'[c].notes_encrypted = EmptyBytes)
             => decrypt_notes(cred'[c]) = <<>>]_vars


\* an active grant whose expires_at is in the past
PastDue(g) == g.expires_at # Null /\ g.expires_at[1] < now /\ g.is_active

Deactivated(table) ==
    {IF PastDue(g) THEN [g EXCEPT !.is_active = FALSE] ELSE g : g \in table}

\* C13: the sweep (run by a staff user) sets is_active to false on exactly
\* the active grants of both tables whose expires_at is in the past, deletes
\* no grant, changes nothing else, answers with the number deactivated per
\* table, and leaves nothing for a second sweep to deactivate.
C13_CleanupDeactivatesExactlyPastDue ==
    [][\A u \in Staff :
          CleanupExpired(u) =>
             /\ sharedCreds' = Deactivated(sharedCreds)
             /\ sharedFolders' = Deactivated(sharedFolders)
             /\ Cardinality(sharedCreds') = Cardinality(sharedCreds)
             /\ Cardinality(sharedFolders') = Cardinality(sharedFolders)
             /\ response'.error = ""
             /\ response'.body =
                   <<Cardinality({g \in sharedCreds : PastDue(g)}),
                     Cardinality({g \in sharedFolders : PastDue(g)})>>
             /\ {g \in sharedCreds' \cup sharedFolders' : PastDue(g)} = {}
             /\ UNCHANGED <<folders, now, cred, history>>]_vars

\* a sweep has just deactivated one credential grant and one folder grant
C13_Witness ==
    /\ response = Resp("cleanup", "", <<1, 1>>)
    /\ sharedCreds # {} /\ sharedFolders # {}
    /\ \A g \in AllGrants :
          ~g.is_active /\ g.expires_at # Null /\ g.expires_at[1] < now


\* the grant g with days added to its expiry, or to now when it has none
WithMoreDays(g, days) ==
    [g EXCEPT !.expires_at =
        Some((IF g.expires_at = Null THEN now ELSE g.expires_at[1]) + days)]

InExtendRange(d) == d # Null /\ d[1] >= 1 /\ d[1] <= 365

\* C14: extend_expiration by the owner with days in [1,365] sets expires_at
\* to the previous expires_at plus days, or to now plus days when it was
\* null; with days outside the range or not a number it fails with a
\* validation error and the grant is unchanged; for both kinds of grant.
C14_ExtendAddsDaysOrRejects ==
    [][/\ response'.op = "extend_shared_credential" =>
            \A u \in Requesters, d \in GrantExtendDays, g \in sharedCreds :
               (ExtendCredentialShare(u, g, d) /\ CredGrantOwner(g) = u) =>
                  IF InExtendRange(d)
                  THEN /\ response'.error = ""
                       /\ sharedCreds' = (sharedCreds \ {g}) \cup {WithMoreDays(g, d[1])}
                  ELSE /\ response'.error = "ValidationError"
                       /\ sharedCreds' = sharedCreds
       /\ response'.op = "extend_shared_folder" =>
            \A u \in Requesters, d \in GrantExtendDays, g \in sharedFolders :
               (ExtendFolderShare(u, g, d) /\ FolderGrantOwner(g) = u) =>
                  IF InExtendRange(d)
                  THEN /\ response'.error = ""
                       /\ sharedFolders' = (sharedFolders \ {g}) \cup {WithMoreDays(g, d[1])}
                  ELSE /\ response'.error = "ValidationError"
                       /\ sharedFolders' = sharedFolders]_vars

\* at time 0 a credential grant and a folder grant, both created with
\* expires_in_days = -1, have been extended by one day
C14_Witness ==
    /\ now = 0
    /\ response = Resp("extend_shared_folder", "", <<>>)
    /\ \E g \in sharedFolders : g.expires_at = Some(0)
    /\ \E g \in sharedCreds : g.expires_at = Some(0)


\* C15: every successful share creates a grant that is active and whose
\* expires_at is now + expires_in_days whenever expires_in_days was supplied
\* (whatever the integer), and null exactly when it was not supplied.
C15_ShareSetsActiveAndExpiry ==
    [][response'.op = "share_credential" =>
          \A u \in Requesters, c \in CredIds, e \in Users, x \in ShareBodies :
             (ShareCredential(u, c, e, x[1], x[2], x[3]) /\ response'.error = "")
             => \E g \in sharedCreds' \ sharedCreds :
                   /\ g.res = c /\ g.user = e
                   /\ g.is_active
                   /\ g.expires_at = IF x[2] # Null THEN Some(now + x[2][1]) ELSE Null]_vars


GrantsOfPair(table, res, user) == {g \in table : g.res = res /\ g.user = user}

\* the outcome the specification gives to revoke(res, u, user) on a table
\* whose resource res belongs to owner
RevokeAsSpecified(table, table2, owner, res, user, u, error) ==
    IF GrantsOfPair(table, res, user) = {}
    THEN error \in {"NotFound", "PermissionDenied"} /\ table2 = table
    ELSE IF owner # u
    THEN error = "PermissionDenied" /\ table2 = table
    ELSE error = "" /\ table2 = table \ GrantsOfPair(table, res, user)

\* C16: revoke deletes the grant of (resource, grantee) when the requester
\* owns the resource; it fails with NotFound when there is no such grant and
\* with PermissionDenied when the requester is not the owner, and a failed
\* revoke removes and changes no grant; for credentials and for folders.
C16_RevokeDeletesOrFailsTyped ==
    [][/\ response'.op = "revoke_credential" =>
            \A u \in Requesters, c \in CredIds, e \in GrantGrantees :
               RevokeCredentialShare(u, c, e) =>
                  RevokeAsSpecified(sharedCreds, sharedCreds', cred[c].owner,
                                    c, e, u, response'.error)
       /\ response'.op = "revoke_folder" =>
            \A u \in Requesters, f \in GrantFolders, e \in GrantGrantees :
               RevokeFolderShare(u, f, e) =>
                  RevokeAsSpecified(sharedFolders, sharedFolders', Folder_owner(f),
                                    f, e, u, response'.error)]_vars


\* C17: delete succeeds only for the owner; a refused delete (a non-owner,
\* also of a credential marked shared) leaves the credential, its history
\* and its grants intact; after a successful delete no PasswordHistory row
\* and no SharedCredential row of that credential remains.
C17_DeleteOwnerOnlyAndCascades ==
    [][response'.op = "destroy" =>
          \A u \in Requesters, c \in CredIds :
             DestroyCredential(u, c) =>
                IF response'.error = ""
                THEN /\ cred[c].exists /\ cred[c].owner = u
                     /\ ~cred'[c].exists
                     /\ history'[c] = <<>>
                     /\ \A g \in sharedCreds' : g.res # c
                ELSE /\ ~(cred[c].exists /\ cred[c].owner = u)
                     /\ UNCHANGED <<folders, cred, history, sharedCreds>>]_vars

\* a user other than the owner has just been refused the deletion of a
\* credential marked shared that has a history entry and a grant
C17_Witness ==
    /\ response = Resp("destroy", "PermissionDenied", <<>>)
    /\ cred["c1"].exists /\ cred["c1"].is_shared
    /\ history["c1"] # <<>>
    /\ \E g \in sharedCreds : g.res = "c1"


\* C18: mark_used sets last_used_at to the current time and changes nothing
\* else of the credential, of the history or of the grants; a later call
\* never moves last_used_at backwards.
C18_MarkUsedTouchesOnlyLastUsed ==
    [][response'.op = "mark_used" =>
          \A u \in Requesters, c \in CredIds :
             (MarkUsed(u, c) /\ response'.error = "") =>
                /\ cred'[c] = [cred[c] EXCEPT !.last_used_at = Some(now)]
                /\ \A d \in CredIds \ {c} : cred'[d] = cred[d]
                /\ UNCHANGED <<folders, history, sharedCreds, sharedFolders>>
                /\ cred[c].last_used_at # Null =>
                      cred'[c].last_used_at[1] >= cred[c].last_used_at[1]]_vars

\* a credential with a history entry and a grant, whose password was last
\* changed earlier, has just been marked used
C18_Witness ==
    /\ response.op = "mark_used" /\ response.error = ""
    /\ cred["c1"].last_used_at = Some(now)
    /\ cred["c1"].password_changed_at < now
    /\ history["c1"] # <<>>
    /\ sharedCreds # {}


\* the plaintexts a response body carries
Plaintexts(body) ==
    {body[i][1] : i \in {j \in 1..Len(body) : body[j] # Null}} \ {<<>>}

\* C19: no response of create, retrieve, update, mark_used or
\* toggle_favorite carries the plaintext password or the plaintext notes of
\* a credential, whoever asks; only the response of reveal does.
C19_NoPlaintextOutsideReveal ==
    response.op \in {"create", "retrieve", "update", "mark_used", "toggle_favorite"}
        => Plaintexts(response.body) = {}


\* the classes a generate_password request asks for
RequestedClasses(d) ==
    (IF d.include_lowercase THEN {LowerChars} ELSE {})
    \cup (IF d.include_uppercase THEN {UpperChars} ELSE {})
    \cup (IF d.include_numbers THEN {DigitChars} ELSE {})
    \cup (IF d.include_symbols THEN {GenSymbolChars} ELSE {})

ValidPolicy(d) ==
    d.length \in MinLength..MaxLength /\ RequestedClasses(d) # {}

\* C20: for a valid policy every outcome of generate has the requested
\* length, holds a character of each requested class, holds characters of
\* requested classes only, and none of l o I O 0 1 under exclude_ambiguous;
\* an empty class selection or a length outside [4,128] is a validation error.
C20_GeneratedPasswordMeetsPolicy ==
    \A r \in 1..Len(req) :
        (req[r].op = "generate_password" /\ req[r].pc = "done")
        => LET d == req[r].data
           IN  IF ValidPolicy(d)
               THEN /\ response.error = ""
                    /\ LET password == response.body[1]
                       IN  /\ Len(password) = d.length
                           /\ \A class \in RequestedClasses(d) : re_search(class, password)
                           /\ \A i \in 1..Len(password) :
                                 password[i] \in UNION RequestedClasses(d)
                           /\ d.exclude_ambiguous
                                 => ~re_search({"l","o","I","O","0","1"}, password)
               ELSE response.error = "ValidationError"

\* a password of five characters of all four classes has been generated
\* with exclude_ambiguous set
C20_Witness ==
    /\ Len(req) = 1 /\ req[1].op = "generate_password" /\ req[1].pc = "done"
    /\ req[1].data = GenData(MinLength + 1, TRUE, TRUE, TRUE, TRUE, TRUE)
    /\ response.error = ""
    /\ Len(response.body[1]) = MinLength + 1


\* C21: for every password the analyzer reports an integer score equal to
\* clamp(base - penalties, 0, 100) and at most 5 recommendations; the empty
\* password gets score 0, level None and one recommendation; the level is
\* Excellent exactly when the score is at least 90.
C21_AnalyzerReportWellFormed ==
    \A r \in 1..Len(req) :
        (req[r].op = "analyze_password_strength" /\ req[r].pc = "done")
        => /\ response.error = ""
           /\ LET report == response.body[1]
                  raw == report.base_score - report.penalties
              IN  /\ report.score \in 0..100
                  /\ req[r].data # <<>> =>
                        report.score = IF raw > 100 THEN 100 ELSE IF raw < 0 THEN 0 ELSE raw
                  /\ Len(report.recommendations) <= 5
                  /\ req[r].data = <<>> =>
                        /\ report.score = 0 /\ report.level = "Aucun"
                        /\ Len(report.recommendations) = 1
                  /\ report.level = "Excellent" <=> report.score >= 90


\* C22: the strength stored by a create or an update with password p is the
\* score the analyzer reports for p.
C22_StoredStrengthIsAnalyzerScore ==
    \A c \in CredIds :
        (/\ response.op \in {"create", "update"} /\ response.error = ""
         /\ cred[c].exists /\ decrypt_password(cred[c]) # <<>>)
        => cred[c].password_strength
              = analyze_password_strength(decrypt_password(cred[c])).score


\* C23: while mark_used and update requests on one credential interleave,
\* last_used_at never goes back to an earlier value (or to none), and a
\* mark_used never changes the stored password ciphertext.
C23_LastUsedNeverGoesBack ==
    [][\A c \in CredIds :
          /\ (cred[c].exists /\ cred'[c].exists /\ cred[c].last_used_at # Null)
             => /\ cred'[c].last_used_at # Null
                /\ cred'[c].last_used_at[1] >= cred[c].last_used_at[1]
          /\ (response'.op = "mark_used" /\ MarkUsed(cred[c].owner, c))
             => cred'[c].password_encrypted = cred[c].password_encrypted]_vars


\* the request fails and no grant is added, removed or changed
FailsUnchanged ==
    /\ response'.error # ""
    /\ sharedCreds' = sharedCreds /\ sharedFolders' = sharedFolders

\* C24: a change of permission, expires_at or is_active, an extension, a
\* toggle, a delete or a revoke of a grant sent by anyone but the owner of
\* the credential (the grantee included, whatever the level) fails and
\* leaves every grant as it was; the owner's toggle flips is_active of that
\* grant and changes nothing else.
C24_OnlyOwnerManagesGrants ==
    [][\A u \in Users, g \in sharedCreds :
          /\ u # CredGrantOwner(g) =>
                /\ (response'.op = "update_shared_credential"
                    /\ \E x \in Patches : UpdateCredentialShare(u, g, x[1], x[2], x[3]))
                   => FailsUnchanged
                /\ (response'.op = "destroy_shared_credential" /\ DestroyCredentialShare(u, g))
                   => FailsUnchanged
                /\ (response'.op = "extend_shared_credential"
                    /\ \E d \in ExtendDays : ExtendCredentialShare(u, g, d))
                   => FailsUnchanged
                /\ (response'.op = "toggle_shared_credential" /\ ToggleCredentialShare(u, g))
                   => FailsUnchanged
                /\ (response'.op = "revoke_credential" /\ RevokeCredentialShare(u, g.res, g.user))
                   => FailsUnchanged
          /\ (response'.op = "toggle_shared_credential"
              /\ ToggleCredentialShare(CredGrantOwner(g), g))
             => /\ response'.error = ""
                /\ sharedCreds' = (sharedCreds \ {g})
                                     \cup {[g EXCEPT !.is_active = ~g.is_active]}
                /\ UNCHANGED <<folders, now, cred, history, sharedFolders>>]_vars

\* the grantee of an admin grant has just tried to toggle it and failed
C24_Witness ==
    /\ response.op = "toggle_shared_credential"
    /\ response.error # ""
    /\ \E g \in sharedCreds : g.user = "u2" /\ g.permission = "admin" /\ g.is_active


\* C25: a requester who is not the owner changes a field of a credential
\* only while holding an active, unexpired grant on it of permission write
\* or more.
C25_NonOwnerWritesNeedWriteGrant ==
    [][\A u \in Users, c \in CredIds :
          (/\ cred[c].exists /\ u # cred[c].owner
           /\ cred'[c] # cred[c]
           /\ \/ /\ response'.op = "update"
                 /\ \E x \in LifePatches, iv \in IVs :
                       UpdateCredential(u, c, x[1], x[2], x[3], x[4], iv, iv)
              \/ response'.op = "mark_used" /\ MarkUsed(u, c))
          => \E g \in sharedCreds :
                g.res = c /\ g.user = u /\ has_permission(g, "write")]_vars


\* C26: a credential created with generate_password set gets a password of
\* the requested password_length with a lowercase letter, an uppercase
\* letter, a digit and, when include_symbols is set, a symbol.
C26_CreateGeneratedMeetsPolicy ==
    \A r \in 1..Len(req), c \in CredIds :
        (req[r].op = "create" /\ response.op = "create" /\ response.error = ""
         /\ cred[c].exists)
        => LET password == decrypt_password(cred[c])
           IN  /\ Len(password) = req[r].data.password_length
               /\ re_search(LowerChars, password)
               /\ re_search(UpperChars, password)
               /\ re_search(DigitChars, password)
               /\ req[r].data.include_symbols => re_search(GenSymbolChars, password)


\* the grants of a table that a step deactivates
DeactivatedBy(table, table2) ==
    {g \in table : g.is_active /\ g \notin table2
                   /\ [g EXCEPT !.is_active = FALSE] \in table2}

\* C27: the sweep run at time t deactivates a grant exactly when the grant
\* is active and is_expired is true at t, so a grant whose expires_at equals
\* t is neither expired nor swept; the listing of the grants shared with a
\* user at t is exactly the user's grants with has_permission('read') at t.
C27_SweepAndListingFollowExpiry ==
    [][/\ (response'.op = "cleanup" /\ \E u \in Staff : CleanupExpired(u))
          => /\ DeactivatedBy(sharedCreds, sharedCreds')
                   = {g \in sharedCreds : g.is_active /\ is_expired(g)}
             /\ DeactivatedBy(sharedFolders, sharedFolders')
                   = {g \in sharedFolders : g.is_active /\ is_expired(g)}
             /\ \A g \in AllGrants :
                   g.expires_at = Some(now)
                   => ~is_expired(g) /\ g \in sharedCreds' \cup sharedFolders'
       /\ \A u \in Users :
             /\ (response'.op = "my_shared_credentials" /\ MySharedCredentials(u))
                => response'.body[1]
                      = {g \in sharedCreds : g.user = u /\ has_permission(g, "read")}
             /\ (response'.op = "my_shared_folders" /\ MySharedFolders(u))
                => response'.body[1]
                      = {g \in sharedFolders : g.user = u /\ has_permission(g, "read")}]_vars

\* a grantee has just listed the grants shared with them and got one that
\* expires at this very instant, next to one that is past due and left out
C27_Witness ==
    /\ response.op = "my_shared_credentials"
    /\ \E g \in response.body[1] : g.expires_at = Some(now) /\ g.is_active
    /\ \E g \in AllGrants : g.is_active /\ is_expired(g)


\* C28: no step changes the owner of a credential that exists before and
\* after it (create, update by the owner or by another user on a shared
\* credential, mark_used, toggle_favorite, share, revoke), and a create
\* stores the requester as owner whatever owner the body names.
C28_OwnerNeverChanges ==
    [][\A c \in CredIds :
          /\ (cred[c].exists /\ cred'[c].exists)
             => cred'[c].owner = cred[c].owner
          /\ (response'.op = "create" /\ ~cred[c].exists /\ cred'[c].exists)
             => \A u \in Requesters, o \in BodyOwners, s \in BOOLEAN, iv \in IVs :
                   CreateCredentialBody(u, c, o, PwA, s, iv)
                   => cred'[c].owner = u]_vars

\* a credential created by u2 after u1's was deleted, shared with a grantee
\* and used, has just been updated
C28_Witness ==
    /\ cred["c1"].exists /\ cred["c1"].owner = "u2"
    /\ cred["c1"].last_used_at # Null
    /\ \E g \in sharedCreds : g.res = "c1"
    /\ response.op = "update" /\ response.error = ""


\* C29: in every reachable state the is_shared flag of a credential is set
\* exactly when at least one grant of the credential is stored (share sets
\* it, revoking the last grant clears it, no request sets it on its own).
C29_SharedFlagMatchesGrants ==
    \A c \in CredIds :
        cred[c].exists
        => (cred[c].is_shared <=> \E g \in sharedCreds : g.res = c)


\* the folders above f in a table
RECURSIVE ancestors(_, _, _)
ancestors(table, S, n) ==
    IF n = 0 THEN S
    ELSE ancestors(table,
                   S \cup {p \in DOMAIN table : \E g \in S : table[g].parent = Some(p)},
                   n - 1)
Acyclic(table) ==
    \A f \in DOMAIN table :
        f \notin ancestors(table, {p \in DOMAIN table : table[f].parent = Some(p)},
                           Cardinality(DOMAIN table))

\* C30: in every reachable state, the states that interleaved update and
\* move requests reach included, no folder is its own parent or one of its
\* own ancestors.
C30_FolderTreeAcyclic == Acyclic(folders)

====
